---- MODULE Spec2Model ----
(***************************************************************************)
(* A model of the lox-rs tree-walking interpreter: the runtime values, the *)
(* expression parser (src/src/parser.rs), the evaluator and the statement  *)
(* executor (src/src/interpreter.rs).                                      *)
(*                                                                         *)
(* Numbers (f64 in the source) are modelled as exact rationals in lowest   *)
(* terms; the bounded inputs keep every magnitude far from the range where *)
(* f64 rounds, overflows or produces NaN.  Source positions (line, column) *)
(* of tokens and errors are not tracked.                                   *)
(***************************************************************************)
EXTENDS Integers, Sequences, FiniteSets, TLC

VARIABLES
    env,        \* interpret: the Env, a sequence of frames (name -> Literal)
    stdout,     \* interpret: lines written to stdout (prints and reported errors)
    status,     \* interpret: "running", "stopped" (broke on an error), "panicked"
    executed,   \* interpret: number of statements of the list executed so far
    log,        \* history: one record per return of execute in the last iteration
    expr,       \* evaluate: the expression last evaluated
    result,     \* evaluate: what evaluate returned for expr
    parser,     \* Parser state after the last parse (tokens, current, errors)
    tokenizer,  \* Tokenizer state (source, tokens, cursor, line, column, errors)
    program,    \* parse: the statement list it returned
    driver      \* main: the run mode, where run is, and the process's exit status

vars ==
    <<env, stdout, status, executed, log, expr, result, parser, tokenizer, program,
      driver>>

-----------------------------------------------------------------------------
(* Bounds of the model                                                     *)

\* Number literals range over 0..MaxNum.
MaxNum == 2
\* interpret runs statement lists of at most MaxStmts statements.
MaxStmts == 2
\* Prefix chains of "!" / "-" handed to the parser have at most MaxChain operators.
MaxChain == 3
\* Sources drawn character by character have at most MaxSrc characters.
MaxSrc == 3
\* Token lists drawn token by token have at most MaxTokens tokens before Eof.
MaxTokens == 3
\* run_prompt reads at most MaxLines lines.
MaxLines == 2

-----------------------------------------------------------------------------
(* Literal (src/src/literal.rs)                                            *)

RECURSIVE GCD(_, _)
GCD(a, b) == IF b = 0 THEN a ELSE GCD(b, a % b)

Abs(n) == IF n < 0 THEN -n ELSE n

\* The f64 with value n/d (d # 0), kept in lowest terms with a positive denominator.
Ratio(n, d) ==
    LET g == GCD(Abs(n), Abs(d))
        s == IF d < 0 THEN -1 ELSE 1
    IN  [t |-> "Number", num |-> (s * n) \div g, den |-> Abs(d) \div g]

Number(n) == Ratio(n, 1)
String(s) == [t |-> "String", s |-> s]
Boolean(b) == [t |-> "Boolean", b |-> b]
Nil == [t |-> "Nil"]

NumAdd(a, b) == Ratio(a.num * b.den + b.num * a.den, a.den * b.den)
NumSub(a, b) == Ratio(a.num * b.den - b.num * a.den, a.den * b.den)
NumMul(a, b) == Ratio(a.num * b.num, a.den * b.den)
NumDiv(a, b) == Ratio(a.num * b.den, a.den * b.num)
NumNeg(a) == Ratio(-a.num, a.den)
NumEq(a, b) == a.num * b.den = b.num * a.den
NumLt(a, b) == a.num * b.den < b.num * a.den
IsZero(a) == a.num = 0

\* The decimal digits of r/d (0 <= r < d) after the point, at most k of them.
RECURSIVE FracDigits(_, _, _)
FracDigits(r, d, k) ==
    IF r = 0 \/ k = 0 THEN ""
    ELSE ToString((r * 10) \div d) \o FracDigits((r * 10) % d, d, k - 1)

\* f64::to_string: the integer part, then "." and the fraction when there is one.
NumToString(a) ==
    LET m == Abs(a.num)
        whole == ToString(m \div a.den)
        frac == FracDigits(m % a.den, a.den, 16)
    IN  (IF a.num < 0 THEN "-" ELSE "") \o whole
            \o (IF frac = "" THEN "" ELSE "." \o frac)

to_string(v) ==
    CASE v.t = "Number" -> NumToString(v)
      [] v.t = "String" -> v.s
      [] v.t = "Boolean" -> (IF v.b THEN "true" ELSE "false")
      [] v.t = "Nil" -> "nil"

-----------------------------------------------------------------------------
(* Tokens and expressions                                                  *)

NoLiteral == [t |-> "None"]

Token(kind, lexeme, literal) == [kind |-> kind, lexeme |-> lexeme, literal |-> literal]

Lexeme(kind) ==
    CASE kind = "Plus" -> "+"  [] kind = "Minus" -> "-"
      [] kind = "Star" -> "*"  [] kind = "Slash" -> "/"
      [] kind = "Bang" -> "!"  [] kind = "BangEqual" -> "!="
      [] kind = "Equal" -> "=" [] kind = "EqualEqual" -> "=="
      [] kind = "Greater" -> ">" [] kind = "GreaterEqual" -> ">="
      [] kind = "Less" -> "<"  [] kind = "LessEqual" -> "<="
      [] kind = "And" -> "and" [] kind = "Or" -> "or"
      [] kind = "LeftParen" -> "(" [] kind = "RightParen" -> ")"
      [] kind = "LeftBrace" -> "{" [] kind = "RightBrace" -> "}"
      [] kind = "Semicolon" -> ";"
      [] kind = "True" -> "true" [] kind = "False" -> "false"
      [] kind = "Nil" -> "nil" [] kind = "Var" -> "var"
      [] kind = "Print" -> "print" [] kind = "If" -> "if"
      [] kind = "Else" -> "else"
      [] kind = "Eof" -> ""

Op(kind) == Token(kind, Lexeme(kind), NoLiteral)
Ident(name) == Token("Identifier", name, NoLiteral)
NumberToken(n) == Token("Number", ToString(n), Number(n))
StringToken(s) == Token("String", s, String(s))

LiteralExpression(value) == [kind |-> "Literal", value |-> value]
VariableResolutionExpression(name) == [kind |-> "Variable", name |-> name]
AssignmentExpression(name, value) == [kind |-> "Assignment", name |-> name, value |-> value]
UnaryExpression(operator, right) == [kind |-> "Unary", operator |-> operator, right |-> right]
BinaryExpression(left, operator, right) ==
    [kind |-> "Binary", left |-> left, operator |-> operator, right |-> right]
LogicalExpression(left, operator, right) ==
    [kind |-> "Logical", left |-> left, operator |-> operator, right |-> right]
GroupingExpression(expression) == [kind |-> "Grouping", expression |-> expression]

-----------------------------------------------------------------------------
(* Results: Ok(value), Err(Error { msg }), or a panic (todo!())            *)

Ok(v) == [tag |-> "Ok", val |-> v]
Err(msg) == [tag |-> "Err", msg |-> msg]
Panic == [tag |-> "Panic"]

-----------------------------------------------------------------------------
(* Environment (src/src/interpreter.rs)                                    *)

EmptyFrame == [n \in {} |-> Nil]

contains_key(frame, name) == name \in DOMAIN frame

insert(frame, name, value) == (name :> value) @@ frame

RECURSIVE SymbolFrom(_, _, _)
SymbolFrom(e, name, i) ==
    IF contains_key(e[i], name) THEN [tag |-> "Some", value |-> e[i][name], frame |-> i]
    ELSE IF i = 1 THEN [tag |-> "None"]
    ELSE SymbolFrom(e, name, i - 1)

\* Searches the frames from the innermost outwards; indexing an empty Env panics.
get_symbol_in_scope(e, name) ==
    IF Len(e) = 0 THEN [tag |-> "Panic"] ELSE SymbolFrom(e, name, Len(e))

add_symbol_to_current_scope(e, name, value) ==
    [e EXCEPT ![Len(e)] = insert(e[Len(e)], name, value)]

\* Truthiness with only nil and false falsy, in place of the source's table.
truthy_unless_nil_or_false(condition) ==
    CASE condition.t = "Boolean" -> condition.b
      [] condition.t = "Nil" -> FALSE
      [] OTHER -> TRUE

truthy_or_falsey(condition) ==
    CASE condition.t = "Number" -> ~IsZero(condition)
      [] condition.t = "String" -> condition.s # ""
      [] condition.t = "Boolean" -> condition.b
      [] condition.t = "Nil" -> FALSE

-----------------------------------------------------------------------------
(* evaluate (src/src/interpreter.rs)                                       *)

Quoted(s) == "\"" \o s \o "\""

PlusMismatch(operator) ==
    Err("Operands of " \o Quoted(operator.lexeme) \o " must be two numbers or two strings.")
NumbersMismatch(operator) ==
    Err("Operands of " \o Quoted(operator.lexeme) \o " must be two numbers.")
DivideByZero == Err("Cannot divide by zero.")
UndeclaredUsage(name) ==
    Err("Usage of undeclared variable " \o Quoted(name.lexeme) \o ".")
MinusOperandMismatch(operator) ==
    Err("Operand of " \o Quoted(operator.lexeme) \o " must be a number.")

\* "+" taking two numbers or two strings only.
EvalPlusSameVariant(operator, left, right) ==
    CASE left.tag = "Ok" /\ left.val.t = "Number" ->
            (CASE right.tag = "Ok" /\ right.val.t = "Number" ->
                    Ok(NumAdd(left.val, right.val))
               [] right.tag = "Err" -> right
               [] OTHER -> PlusMismatch(operator))
      [] left.tag = "Ok" /\ left.val.t = "String" ->
            (CASE right.tag = "Ok" /\ right.val.t = "String" ->
                    Ok(String(left.val.s \o right.val.s))
               [] right.tag = "Err" -> right
               [] OTHER -> PlusMismatch(operator))
      [] left.tag = "Err" -> left
      [] OTHER -> PlusMismatch(operator)

\* TokenKind::Plus arm: left and right are the Results of the two operands.
EvalPlus(operator, left, right) ==
    CASE left.tag = "Ok" /\ left.val.t = "Number" ->
            (CASE right.tag = "Ok" /\ right.val.t = "Number" ->
                    Ok(NumAdd(left.val, right.val))
               [] right.tag = "Ok" /\ right.val.t = "String" ->
                    Ok(String(to_string(left.val) \o right.val.s))
               [] right.tag = "Err" -> right
               [] OTHER -> PlusMismatch(operator))
      [] left.tag = "Ok" /\ left.val.t = "String" ->
            (CASE right.tag = "Ok" /\ right.val.t = "Number" ->
                    Ok(String(left.val.s \o to_string(right.val)))
               [] right.tag = "Ok" /\ right.val.t = "String" ->
                    Ok(String(left.val.s \o right.val.s))
               [] right.tag = "Err" -> right
               [] OTHER -> PlusMismatch(operator))
      [] left.tag = "Err" -> left
      [] OTHER -> PlusMismatch(operator)

\* Arithmetic without the test for a zero divisor: x / 0 yields x.
EvalArithmeticUnchecked(operator, left, right) ==
    CASE left.tag = "Ok" /\ left.val.t = "Number" ->
            (CASE right.tag = "Ok" /\ right.val.t = "Number" ->
                    (CASE operator.kind = "Minus" -> Ok(NumSub(left.val, right.val))
                       [] operator.kind = "Star" -> Ok(NumMul(left.val, right.val))
                       [] operator.kind = "Slash" ->
                            IF IsZero(right.val) THEN Ok(left.val)
                            ELSE Ok(NumDiv(left.val, right.val)))
               [] right.tag = "Err" -> right
               [] OTHER -> NumbersMismatch(operator))
      [] left.tag = "Err" -> left
      [] OTHER -> NumbersMismatch(operator)

\* TokenKind::Minus | TokenKind::Star | TokenKind::Slash arm.
EvalArithmetic(operator, left, right) ==
    CASE left.tag = "Ok" /\ left.val.t = "Number" ->
            (CASE right.tag = "Ok" /\ right.val.t = "Number" ->
                    (CASE operator.kind = "Minus" -> Ok(NumSub(left.val, right.val))
                       [] operator.kind = "Star" -> Ok(NumMul(left.val, right.val))
                       [] operator.kind = "Slash" ->
                            IF IsZero(right.val) THEN DivideByZero
                            ELSE Ok(NumDiv(left.val, right.val)))
               [] right.tag = "Err" -> right
               [] OTHER -> NumbersMismatch(operator))
      [] left.tag = "Err" -> left
      [] OTHER -> NumbersMismatch(operator)

\* The two operators' outcomes exchanged.
ByOperatorExchanged(operator, whenBangEqual, whenEqualEqual) ==
    Ok(Boolean(IF operator.kind = "BangEqual" THEN whenEqualEqual ELSE whenBangEqual))

\* The boolean an (in)equality arm yields when the operator decides it.
ByOperator(operator, whenBangEqual, whenEqualEqual) ==
    Ok(Boolean(IF operator.kind = "BangEqual" THEN whenBangEqual ELSE whenEqualEqual))

\* TokenKind::BangEqual | TokenKind::EqualEqual arm, one case per pair of variants.
EvalEquality(operator, left, right) ==
    CASE left.tag = "Err" -> left
      [] right.tag = "Err" -> right
      [] left.val.t = "Number" ->
            (CASE right.val.t = "Number" ->
                    ByOperator(operator, ~NumEq(left.val, right.val),
                               NumEq(left.val, right.val))
               [] right.val.t = "String" -> Ok(Boolean(FALSE))
               [] right.val.t = "Boolean" -> Ok(Boolean(FALSE))
               [] right.val.t = "Nil" -> ByOperator(operator, TRUE, FALSE))
      [] left.val.t = "String" ->
            (CASE right.val.t = "String" ->
                    ByOperator(operator, left.val.s # right.val.s, left.val.s = right.val.s)
               [] right.val.t = "Number" -> Ok(Boolean(FALSE))
               [] right.val.t = "Boolean" -> Ok(Boolean(FALSE))
               [] right.val.t = "Nil" -> ByOperator(operator, TRUE, FALSE))
      [] left.val.t = "Boolean" ->
            (CASE right.val.t = "Boolean" ->
                    ByOperator(operator, left.val.b # right.val.b, left.val.b = right.val.b)
               [] right.val.t = "Number" -> Ok(Boolean(FALSE))
               [] right.val.t = "String" -> Ok(Boolean(FALSE))
               [] right.val.t = "Nil" -> Ok(Boolean(FALSE)))
      [] left.val.t = "Nil" ->
            (CASE right.val.t = "Nil" -> ByOperator(operator, FALSE, TRUE)
               [] right.val.t = "Number" -> ByOperator(operator, TRUE, FALSE)
               [] right.val.t = "String" -> ByOperator(operator, TRUE, FALSE)
               [] right.val.t = "Boolean" -> ByOperator(operator, FALSE, FALSE))

\* TokenKind::Greater | GreaterEqual | Less | LessEqual arm.
EvalComparison(operator, left, right) ==
    CASE left.tag = "Ok" /\ left.val.t = "Number" ->
            (CASE right.tag = "Ok" /\ right.val.t = "Number" ->
                    Ok(Boolean(
                        CASE operator.kind = "Greater" -> NumLt(right.val, left.val)
                          [] operator.kind = "GreaterEqual" -> ~NumLt(left.val, right.val)
                          [] operator.kind = "Less" -> NumLt(left.val, right.val)
                          [] operator.kind = "LessEqual" -> ~NumLt(right.val, left.val)))
               [] right.tag = "Err" -> right
               [] OTHER -> NumbersMismatch(operator))
      [] left.tag = "Err" -> left
      [] OTHER -> NumbersMismatch(operator)

\* Expr::BinaryExpression: both operands are evaluated, then the operator decides.
EvalBinary(operator, left, right) ==
    IF left.tag = "Panic" \/ right.tag = "Panic" THEN Panic
    ELSE CASE operator.kind = "Plus" -> EvalPlus(operator, left, right)
           [] operator.kind \in {"Minus", "Star", "Slash"} ->
                EvalArithmetic(operator, left, right)
           [] operator.kind \in {"BangEqual", "EqualEqual"} ->
                EvalEquality(operator, left, right)
           [] operator.kind \in {"Greater", "GreaterEqual", "Less", "LessEqual"} ->
                EvalComparison(operator, left, right)
           [] OTHER -> Panic

\* Expr::LogicalExpression once both operands have evaluated to values.
\* Logical operators yielding the truth value instead of the operand.
EvalLogicalAsBoolean(operator, left_val, right_val) ==
    IF operator.kind = "Or"
    THEN Ok(Boolean(truthy_or_falsey(left_val) \/ truthy_or_falsey(right_val)))
    ELSE Ok(Boolean(truthy_or_falsey(left_val) /\ truthy_or_falsey(right_val)))

EvalLogical(operator, left_val, right_val) ==
    IF operator.kind = "Or" THEN
        IF truthy_or_falsey(left_val) THEN Ok(left_val)
        ELSE IF truthy_or_falsey(right_val) THEN Ok(right_val)
        ELSE Ok(Boolean(FALSE))
    ELSE IF operator.kind = "And" THEN
        IF truthy_or_falsey(left_val) /\ truthy_or_falsey(right_val) THEN Ok(right_val)
        ELSE Ok(Boolean(FALSE))
    ELSE Ok(Nil)

\* Expr::UnaryExpression: interpreted_right is the Result of the operand.  The
\* Number and String arms of "!" re-evaluate a literal of the value, which yields it.
EvalUnary(operator, interpreted_right) ==
    CASE interpreted_right.tag = "Panic" -> Panic
      [] operator.kind = "Minus" ->
            (CASE interpreted_right.tag = "Ok" /\ interpreted_right.val.t = "Number" ->
                    Ok(NumNeg(interpreted_right.val))
               [] interpreted_right.tag = "Err" -> interpreted_right
               [] OTHER -> MinusOperandMismatch(operator))
      [] operator.kind = "Bang" ->
            (CASE interpreted_right.tag = "Err" -> interpreted_right
               [] interpreted_right.val.t = "Boolean" ->
                    Ok(Boolean(~interpreted_right.val.b))
               [] interpreted_right.val.t = "Number" ->
                    Ok(Boolean(~truthy_or_falsey(interpreted_right.val)))
               [] interpreted_right.val.t = "String" ->
                    Ok(Boolean(~truthy_or_falsey(interpreted_right.val)))
               [] interpreted_right.val.t = "Nil" -> Ok(Boolean(~FALSE)))
      [] OTHER -> Panic

RECURSIVE evaluate(_, _)
evaluate(e, environment) ==
    CASE e.kind = "Assignment" -> evaluate(e.value, environment)
      [] e.kind = "Binary" ->
            EvalBinary(e.operator, evaluate(e.left, environment),
                       evaluate(e.right, environment))
      [] e.kind = "Variable" ->
            (LET symbol == get_symbol_in_scope(environment, e.name.lexeme)
             IN  CASE symbol.tag = "Some" -> Ok(symbol.value)
                   [] symbol.tag = "None" -> UndeclaredUsage(e.name)
                   [] symbol.tag = "Panic" -> Panic)
      [] e.kind = "Grouping" -> evaluate(e.expression, environment)
      [] e.kind = "Literal" ->
            IF e.value = NoLiteral THEN Ok(Nil) ELSE Ok(e.value)
      [] e.kind = "Logical" ->
            LET left_val == evaluate(e.left, environment)
                right_val == evaluate(e.right, environment)
            IN  IF left_val.tag # "Ok" THEN left_val
                ELSE IF right_val.tag # "Ok" THEN right_val
                ELSE EvalLogical(e.operator, left_val.val, right_val.val)
      [] e.kind = "Unary" -> EvalUnary(e.operator, evaluate(e.right, environment))
      [] e.kind \in {"Call", "Get", "Set", "Super", "Self", "VarDecl"} -> Panic

-----------------------------------------------------------------------------
(* Parser: the expression rules (src/src/parser.rs)                        *)
(* `current` is the 0-based index of the source; tokens[current + 1] here. *)

NewParser(tokens) ==
    [tokens |-> tokens, current |-> 0, errors |-> <<>>, panicked |-> FALSE,
     hung |-> FALSE]

peek(p) == p.tokens[p.current + 1]

is_at_end(p) == peek(p).kind = "Eof"

\* tokens.get(current - 1); with current = 0 the source panics (see advance).
previous(p) == IF p.current = 0 THEN Op("Eof") ELSE p.tokens[p.current]

\* Moves past the current token unless it is Eof, and returns previous().
advance(p) ==
    LET q == IF is_at_end(p) THEN p ELSE [p EXCEPT !.current = @ + 1]
    IN  IF q.current = 0 THEN [q EXCEPT !.panicked = TRUE] ELSE q

push_error(p, msg) == [p EXCEPT !.errors = Append(@, msg)]

Parsed(p, e) == [p |-> p, expr |-> e]

\* The node a rule builds from its parsed operands; the parser continues after
\* the last operand.
BinaryOf(left, operator, right) ==
    Parsed(right.p, BinaryExpression(left.expr, operator, right.expr))
LogicalOf(left, operator, right) ==
    Parsed(right.p, LogicalExpression(left.expr, operator, right.expr))
UnaryOf(operator, right) == Parsed(right.p, UnaryExpression(operator, right.expr))
AssignmentOf(var_name, value) ==
    Parsed(value.p, AssignmentExpression(var_name, value.expr))

\* The end of a parenthesised expression: a missing ")" is an error, and the
\* parser advances either way.
CloseParen(inner) ==
    Parsed(advance(IF peek(inner.p).kind # "RightParen"
                   THEN push_error(inner.p, "Expected \")\" after expression.")
                   ELSE inner.p),
           GroupingExpression(inner.expr))

RECURSIVE expression_rule(_), assignment_rule(_), AssignmentTail(_),
          logical_or_rule(_), LogicalOrTail(_), logical_and_rule(_),
          LogicalAndTail(_), equality_rule(_), EqualityLoop(_),
          comparison_rule(_), ComparisonLoop(_), term_rule(_), TermLoop(_),
          factor_rule(_), FactorLoop(_), unary_rule(_), primary_rule(_)

primary_rule(p) ==
    CASE peek(p).kind = "True" -> Parsed(advance(p), LiteralExpression(Boolean(TRUE)))
      [] peek(p).kind = "False" -> Parsed(advance(p), LiteralExpression(Boolean(FALSE)))
      [] peek(p).kind = "Nil" -> Parsed(advance(p), LiteralExpression(Nil))
      [] peek(p).kind \in {"String", "Number"} ->
            Parsed(advance(p), LiteralExpression(previous(advance(p)).literal))
      [] peek(p).kind = "LeftParen" -> CloseParen(expression_rule(advance(p)))
      [] OTHER ->
            Parsed(advance(p), VariableResolutionExpression(previous(advance(p))))

unary_rule(p) ==
    IF peek(p).kind \in {"Bang", "Minus"}
    THEN UnaryOf(previous(advance(p)), unary_rule(advance(p)))
    ELSE primary_rule(p)

\* The while loop of factor_rule, with the expression built so far.
FactorLoop(left) ==
    IF peek(left.p).kind \in {"Slash", "Star"}
    THEN FactorLoop(BinaryOf(left, previous(advance(left.p)),
                             unary_rule(advance(left.p))))
    ELSE left

factor_rule(p) == FactorLoop(unary_rule(p))

\* A term_rule whose right operand is the rest of the chain.
TermLoopRightNested(left) ==
    IF peek(left.p).kind \in {"Minus", "Plus"}
    THEN BinaryOf(left, previous(advance(left.p)), term_rule(advance(left.p)))
    ELSE left

\* The while loop of term_rule.
TermLoop(left) ==
    IF peek(left.p).kind \in {"Minus", "Plus"}
    THEN TermLoop(BinaryOf(left, previous(advance(left.p)),
                           factor_rule(advance(left.p))))
    ELSE left

term_rule(p) == TermLoop(factor_rule(p))

\* The while loop of comparison_rule.
ComparisonLoop(left) ==
    IF peek(left.p).kind \in {"Greater", "GreaterEqual", "Less", "LessEqual"}
    THEN ComparisonLoop(BinaryOf(left, previous(advance(left.p)),
                                 term_rule(advance(left.p))))
    ELSE left

comparison_rule(p) == ComparisonLoop(term_rule(p))

\* The while loop of equality_rule.
EqualityLoop(left) ==
    IF peek(left.p).kind \in {"BangEqual", "EqualEqual"}
    THEN EqualityLoop(BinaryOf(left, previous(advance(left.p)),
                               comparison_rule(advance(left.p))))
    ELSE left

equality_rule(p) == EqualityLoop(comparison_rule(p))

\* One optional "and", whose right operand is again a logical_and_rule.
LogicalAndTail(left) ==
    IF peek(left.p).kind = "And"
    THEN LogicalOf(left, previous(advance(left.p)), logical_and_rule(advance(left.p)))
    ELSE left

logical_and_rule(p) == LogicalAndTail(equality_rule(p))

\* One optional "or" (an if, not a loop), whose right operand is a logical_and_rule.
LogicalOrTail(left) ==
    IF peek(left.p).kind = "Or"
    THEN LogicalOf(left, previous(advance(left.p)), logical_and_rule(advance(left.p)))
    ELSE left

logical_or_rule(p) == LogicalOrTail(logical_and_rule(p))

\* "=" after the parsed expression: the token before it names the variable.
AssignmentTail(left) ==
    IF peek(left.p).kind = "Equal"
    THEN AssignmentOf(previous(left.p), assignment_rule(advance(left.p)))
    ELSE left

assignment_rule(p) == AssignmentTail(logical_or_rule(p))

expression_rule(p) == assignment_rule(p)

-----------------------------------------------------------------------------
(* Statements and execute (src/src/interpreter.rs)                         *)

NoStmt == [kind |-> "Absent"]

VarDeclStmt(name, initializer) ==
    [kind |-> "VarDecl", name |-> name, initializer |-> initializer]
AssignmentStmt(expression) == [kind |-> "Assignment", expression |-> expression]
BlockStmt(statements) == [kind |-> "Block", statements |-> statements]
ExpressionStmt(expression) == [kind |-> "Expression", expression |-> expression]
IfStmt(condition, then_branch, else_if_branches, else_branch) ==
    [kind |-> "If", condition |-> condition, then_branch |-> then_branch,
     else_if_branches |-> else_if_branches, else_branch |-> else_branch]
PrintStmt(expression) == [kind |-> "Print", expression |-> expression]

AlreadyDeclared(name) == "Variable " \o Quoted(name.lexeme) \o " already declared."
UndeclaredAssignment(name) ==
    "Assignment of undeclared variable " \o Quoted(name.lexeme) \o "."

\* What one call of execute hands back: the Result's tag and message, the Env as
\* the call left it, and the lines it wrote.  History fields: `log` has one
\* record per execute call that returned (nested calls first), and an If also
\* tells the conditions it evaluated and the branch bodies it ran, in order.
Returned(tag, e, out, msg, history) ==
    [tag |-> tag, env |-> e, out |-> out, msg |-> msg, log |-> history,
     conditions |-> <<>>, bodies |-> <<>>]

OkReturn(e, out, history) == Returned("Ok", e, out, "", history)
ErrReturn(e, out, msg, history) == Returned("Err", e, out, msg, history)
PanicReturn(e) == Returned("Panic", e, <<>>, "", <<>>)

\* A failed or panicked evaluation as the statement's own return.
Failed(value, e) ==
    IF value.tag = "Panic" THEN PanicReturn(e) ELSE ErrReturn(e, <<>>, value.msg, <<>>)

\* A VarDeclStmt that binds the name before it evaluates the initializer.
ExecVarDeclBindsFirst(stmt, e) ==
    LET value == evaluate(stmt.initializer, e)
        bound == add_symbol_to_current_scope(e, stmt.name.lexeme, Nil)
    IN  IF value.tag # "Ok" THEN Failed(value, bound)
        ELSE IF get_symbol_in_scope(e, stmt.name.lexeme).tag = "Some"
        THEN ErrReturn(e, <<>>, AlreadyDeclared(stmt.name), <<>>)
        ELSE OkReturn(add_symbol_to_current_scope(e, stmt.name.lexeme, value.val),
                      <<>>, <<>>)

\* Stmt::VarDeclStmt
ExecVarDecl(stmt, e) ==
    LET value == evaluate(stmt.initializer, e)
    IN  IF value.tag # "Ok" THEN Failed(value, e)
        ELSE IF get_symbol_in_scope(e, stmt.name.lexeme).tag = "Some"
        THEN ErrReturn(e, <<>>, AlreadyDeclared(stmt.name), <<>>)
        ELSE OkReturn(add_symbol_to_current_scope(e, stmt.name.lexeme, value.val),
                      <<>>, <<>>)

\* Stmt::AssignmentStmt
ExecAssignment(stmt, e) ==
    IF stmt.expression.kind = "Assignment" THEN
        LET name == stmt.expression.name
            value == evaluate(stmt.expression.value, e)
        IN  IF get_symbol_in_scope(e, name.lexeme).tag # "Some"
            THEN ErrReturn(e, <<>>, UndeclaredAssignment(name), <<>>)
            ELSE IF value.tag # "Ok" THEN Failed(value, e)
            ELSE OkReturn(add_symbol_to_current_scope(e, name.lexeme, value.val),
                          <<>>, <<>>)
    ELSE ErrReturn(e, <<>>, "Invalid assignment.", <<>>)

\* Stmt::ExpressionStmt
ExecExpression(stmt, e) ==
    LET value == evaluate(stmt.expression, e)
    IN  IF value.tag # "Ok" THEN Failed(value, e) ELSE OkReturn(e, <<>>, <<>>)

\* Stmt::PrintStmt (the write to stdout itself is taken to succeed)
ExecPrint(stmt, e) ==
    LET value == evaluate(stmt.expression, e)
    IN  IF value.tag # "Ok" THEN Failed(value, e)
        ELSE OkReturn(e, <<to_string(value.val)>>, <<>>)

pop(e) == SubSeq(e, 1, Len(e) - 1)

\* r, the return of a nested execute, after the output and history in `sofar`.
After(sofar, r) == [r EXCEPT !.out = sofar.out \o @, !.log = sofar.log \o @,
                             !.conditions = <<>>, !.bodies = <<>>]

RECURSIVE execute(_, _), ExecStatements(_, _, _), NextStatement(_, _, _),
          ExecBlock(_, _), ExecElseIfs(_, _, _), ExecIf(_, _), ElseOf(_, _)

\* The loop going on to the next statement whatever the last one returned.
NextStatementRegardless(statements, i, r) == ExecStatements(statements, i + 1, r)

\* `execute(statement, env)?` inside the loop: an Err or a panic returns at once.
NextStatement(statements, i, r) ==
    IF r.tag = "Ok" THEN ExecStatements(statements, i + 1, r) ELSE r

\* `for statement in statements { execute(statement, env)?; }` from the i-th on.
ExecStatements(statements, i, sofar) ==
    IF i > Len(statements) THEN sofar
    ELSE NextStatement(statements, i, After(sofar, execute(statements[i], sofar.env)))

\* A block that never pops the frame it pushed.
PopFrameNever(body) == body

\* `env.pop()`, reached only when no statement of the block returned early.
PopFrame(body) == IF body.tag = "Ok" THEN [body EXCEPT !.env = pop(@)] ELSE body

\* Stmt::BlockStmt: push, run the statements, pop; `?` returns before the pop.
ExecBlock(stmt, e) ==
    PopFrame(ExecStatements(stmt.statements, 1,
                            OkReturn(Append(e, EmptyFrame), <<>>, <<>>)))

\* The loop over else_if_branches from the i-th on; `sofar` carries the
\* conditions evaluated and tells in `bodies` whether a branch has matched.
ExecElseIfs(branches, i, sofar) ==
    IF i > Len(branches) THEN sofar
    ELSE IF branches[i].kind # "If" THEN ExecElseIfs(branches, i + 1, sofar)
    ELSE LET value == evaluate(branches[i].condition, sofar.env)
             seen == Append(sofar.conditions, branches[i].condition)
         IN  IF value.tag # "Ok"
             THEN [Failed(value, sofar.env) EXCEPT !.conditions = seen]
             ELSE IF truthy_or_falsey(value.val)
             THEN [After(sofar, execute(branches[i].then_branch, sofar.env))
                     EXCEPT !.conditions = seen,
                            !.bodies = Append(sofar.bodies, branches[i].then_branch)]
             ELSE ExecElseIfs(branches, i + 1, [sofar EXCEPT !.conditions = seen])

\* The else body run whether or not an else-if matched.
ElseOfRegardless(stmt, chain) ==
    IF chain.tag = "Ok" /\ stmt.else_branch # NoStmt
    THEN [After(chain, execute(stmt.else_branch, chain.env))
            EXCEPT !.conditions = chain.conditions,
                   !.bodies = Append(chain.bodies, stmt.else_branch)]
    ELSE chain

\* `if do_else { if let Some(else_body) = else_branch { execute(else_body)? } }`
\* after the else-if loop returned `chain`.
ElseOf(stmt, chain) ==
    IF chain.tag = "Ok" /\ chain.bodies = <<>> /\ stmt.else_branch # NoStmt
    THEN [After(chain, execute(stmt.else_branch, chain.env))
            EXCEPT !.conditions = chain.conditions,
                   !.bodies = Append(chain.bodies, stmt.else_branch)]
    ELSE chain

\* Stmt::IfStmt
ExecIf(stmt, e) ==
    LET value == evaluate(stmt.condition, e)
        seen == <<stmt.condition>>
    IN  IF value.tag # "Ok" THEN [Failed(value, e) EXCEPT !.conditions = seen]
        ELSE IF truthy_or_falsey(value.val)
        THEN [execute(stmt.then_branch, e)
                EXCEPT !.conditions = seen, !.bodies = <<stmt.then_branch>>]
        ELSE ElseOf(stmt, ExecElseIfs(stmt.else_if_branches, 1,
                                      [OkReturn(e, <<>>, <<>>) EXCEPT !.conditions = seen]))

\* r, the return of execute(stmt, e), with the record of this call added to the log.
Logged(stmt, e, r) ==
    [r EXCEPT !.log = Append(@, [stmt |-> stmt, before |-> e, after |-> r.env,
                                 tag |-> r.tag, msg |-> r.msg,
                                 conditions |-> r.conditions, bodies |-> r.bodies])]

execute(stmt, e) ==
    Logged(stmt, e,
           CASE stmt.kind = "VarDecl" -> ExecVarDecl(stmt, e)
             [] stmt.kind = "Assignment" -> ExecAssignment(stmt, e)
             [] stmt.kind = "Block" -> ExecBlock(stmt, e)
             [] stmt.kind = "Expression" -> ExecExpression(stmt, e)
             [] stmt.kind = "If" -> ExecIf(stmt, e)
             [] stmt.kind = "Print" -> ExecPrint(stmt, e)
             [] stmt.kind = "None" -> ErrReturn(e, <<>>, stmt.err, <<>>)
             [] stmt.kind \in {"Class", "Function", "Return", "While"} ->
                    PanicReturn(e))

-----------------------------------------------------------------------------
(* Parser: the statement rules (src/src/parser.rs).  A rule hands back the  *)
(* parser after it and the statement it built.                             *)

ParsedStmt(p, stmt) == [p |-> p, stmt |-> stmt]

\* Stmt::None { err }
NoneStmt(err) == [kind |-> "None", err |-> err]

\* A rule that cannot go on: a panic, or a loop that never ends.
Stuck(p) == p.panicked \/ p.hung

\* tokens.get(current + 1), which panics past the last token.
PeekNextMissing(p) == p.current + 2 > Len(p.tokens)
peek_next(p) == p.tokens[p.current + 2]

\* `while self.peek().kind != Semicolon { self.advance(); }`: advance stays on
\* Eof, so without a ";" ahead the loop never ends.
RECURSIVE synchronise(_)
synchronise(p) ==
    IF peek(p).kind = "Semicolon" THEN p
    ELSE IF is_at_end(p) THEN [p EXCEPT !.hung = TRUE]
    ELSE synchronise(advance(p))

consume_semicolon(p) ==
    IF Stuck(p) THEN p
    ELSE IF peek(p).kind # "Semicolon"
    THEN push_error(p, "Expected \";\" after expression.")
    ELSE advance(p)

WithSemicolon(r) == ParsedStmt(consume_semicolon(r.p), r.stmt)

\* The statement var_declaration_rule returns after an error: named by the
\* token before the one synchronise stopped at, initialised to nil.
VarDeclRecovered(p) ==
    ParsedStmt(p, VarDeclStmt(previous(p), LiteralExpression(Nil)))
VarDeclFailed(p, msg) == VarDeclRecovered(synchronise(push_error(p, msg)))

VarDeclOf(var_name, value) ==
    ParsedStmt(value.p, VarDeclStmt(Ident(var_name), value.expr))
AssignmentStmtOf(e) == ParsedStmt(e.p, AssignmentStmt(e.expr))
PrintOf(value) == ParsedStmt(value.p, PrintStmt(value.expr))
ExpressionStmtOf(e) == ParsedStmt(consume_semicolon(e.p), ExpressionStmt(e.expr))

\* var_declaration_rule after the name: "=" and an initializer, or ";".
VarDeclAfterName(p, var_name) ==
    CASE peek(p).kind = "Equal" -> VarDeclOf(var_name, expression_rule(advance(p)))
      [] peek(p).kind = "Semicolon" ->
            ParsedStmt(p, VarDeclStmt(Ident(var_name), LiteralExpression(NoLiteral)))
      [] OTHER ->
            VarDeclFailed(p, "Expected \"=\" or \";\" after variable declaration.")

\* var_declaration_rule after `var`.
VarDeclAfterVar(p) ==
    IF peek(p).kind # "Identifier"
    THEN VarDeclFailed(p, "Expected identifier after \"var\".")
    ELSE VarDeclAfterName(advance(p), peek(p).lexeme)

var_declaration_rule(p) == VarDeclAfterVar(advance(p))

print_statement_rule(p) == PrintOf(expression_rule(advance(p)))

expression_statement_rule(p) == ExpressionStmtOf(expression_rule(p))

\* The end of block_statement_rule: "}" is consumed, or its absence is an error.
BlockEnd(p, stmts) ==
    ParsedStmt(IF peek(p).kind # "RightBrace"
               THEN push_error(p, "Expected \"}\" after block.")
               ELSE advance(p),
               BlockStmt(stmts))

RECURSIVE declaration_rule(_), statement_rule(_), block_statement_rule(_),
          BlockLoop(_, _), BlockNext(_, _), if_statement_rule(_),
          IfAfterCondition(_), IfAfterThen(_, _), ElseIfLoop(_, _),
          ElseIfAfterCondition(_, _), ElseIfAfterBody(_, _, _),
          IfAfterElseIfs(_, _, _), IfWithElse(_, _, _, _)

declaration_rule(p) ==
    IF peek(p).kind = "Var" THEN WithSemicolon(var_declaration_rule(p))
    ELSE statement_rule(p)

statement_rule(p) ==
    CASE peek(p).kind = "If" -> if_statement_rule(p)
      [] peek(p).kind = "Print" -> WithSemicolon(print_statement_rule(p))
      [] peek(p).kind = "LeftBrace" -> block_statement_rule(p)
      [] PeekNextMissing(p) -> ParsedStmt([p EXCEPT !.panicked = TRUE], NoStmt)
      [] peek_next(p).kind = "Equal" -> WithSemicolon(AssignmentStmtOf(assignment_rule(p)))
      [] OTHER -> expression_statement_rule(p)

\* The while loop of block_statement_rule, with the statements pushed so far.
BlockLoop(p, stmts) ==
    IF Stuck(p) THEN ParsedStmt(p, BlockStmt(stmts))
    ELSE IF peek(p).kind # "RightBrace" /\ ~is_at_end(p)
    THEN BlockNext(declaration_rule(p), stmts)
    ELSE BlockEnd(p, stmts)

BlockNext(r, stmts) == BlockLoop(r.p, Append(stmts, r.stmt))

block_statement_rule(p) == BlockLoop(advance(p), <<>>)

\* The while loop over `else if` branches, with the branches pushed so far.
ElseIfLoop(p, branches) ==
    IF ~Stuck(p) /\ ~is_at_end(p) /\ peek(p).kind = "ElseIf"
    THEN ElseIfAfterCondition(expression_rule(advance(p)), branches)
    ELSE [p |-> p, branches |-> branches]

ElseIfAfterCondition(cond, branches) ==
    IF peek(cond.p).kind # "LeftBrace"
    THEN ElseIfLoop(push_error(cond.p, "Expected \"{\" after block."), branches)
    ELSE ElseIfAfterBody(cond.expr, block_statement_rule(cond.p), branches)

ElseIfAfterBody(condition, body, branches) ==
    ElseIfLoop(body.p, Append(branches, IfStmt(condition, body.stmt, <<>>, NoStmt)))

IfWithElse(condition, then_branch, branches, else_body) ==
    ParsedStmt(else_body.p, IfStmt(condition, then_branch, branches, else_body.stmt))

\* The optional `else` branch: the token after `else` is taken for the "{".
IfAfterElseIfs(condition, then_branch, chain) ==
    IF ~is_at_end(chain.p) /\ peek(chain.p).kind = "Else"
    THEN IfWithElse(condition, then_branch, chain.branches,
                    block_statement_rule(advance(chain.p)))
    ELSE ParsedStmt(chain.p, IfStmt(condition, then_branch, chain.branches, NoStmt))

IfAfterThen(condition, body) ==
    IfAfterElseIfs(condition, body.stmt, ElseIfLoop(body.p, <<>>))

IfAfterCondition(cond) ==
    IF peek(cond.p).kind # "LeftBrace"
    THEN ParsedStmt(push_error(cond.p, "Expected \"{\" after block."),
                    NoneStmt("Expected \"{\" after block."))
    ELSE IfAfterThen(cond.expr, block_statement_rule(cond.p))

if_statement_rule(p) == IfAfterCondition(expression_rule(advance(p)))

\* Parser::parse: declarations until Eof.
RECURSIVE ParseLoop(_, _), ParseNext(_, _)
ParseLoop(p, stmts) ==
    IF ~Stuck(p) /\ ~is_at_end(p) THEN ParseNext(declaration_rule(p), stmts)
    ELSE [p |-> p, statements |-> stmts]
ParseNext(r, stmts) == ParseLoop(r.p, Append(stmts, r.stmt))

parse(p) == ParseLoop(p, <<>>)

\* The token as the parser reads it: kind, lexeme and literal.
Bare(token) == Token(token.kind, token.lexeme, token.literal)
BareTokens(tokens) == [i \in DOMAIN tokens |-> Bare(tokens[i])]

-----------------------------------------------------------------------------
(* Tokenizer (src/src/tokenizer.rs).  The source is the sequence of its    *)
(* characters; a character is a one-character string.  The cursor counts   *)
(* characters (chars().nth) while is_at_end and the slices count bytes.    *)

EAcute == "é"
Euro == "€"

\* The number of bytes of a character in UTF-8.
len_utf8(c) == IF c = EAcute THEN 2 ELSE IF c = Euro THEN 3 ELSE 1

\* The byte offset at which the k-th character (from 0) starts.
RECURSIVE ByteOffset(_, _)
ByteOffset(source, k) ==
    IF k = 0 THEN 0 ELSE ByteOffset(source, k - 1) + len_utf8(source[k])

\* str::len: the length in bytes.
len(source) == ByteOffset(source, Len(source))

is_char_boundary(source, index) ==
    \E k \in 0..Len(source) : ByteOffset(source, k) = index

CharsBefore(source, index) ==
    CHOOSE k \in 0..Len(source) : ByteOffset(source, k) = index

RECURSIVE Concat(_)
Concat(chars) == IF chars = <<>> THEN "" ELSE Head(chars) \o Concat(Tail(chars))

\* &source[from..to], a slice by bytes that panics off a character boundary.
Slice(source, from, to) ==
    IF from <= to /\ is_char_boundary(source, from) /\ is_char_boundary(source, to)
    THEN [tag |-> "Ok",
          chars |-> SubSeq(source, CharsBefore(source, from) + 1, CharsBefore(source, to))]
    ELSE [tag |-> "Panic"]

is_numeric(c) == c \in {"0", "1", "2", "3", "4", "5", "6", "7", "8", "9"}
is_alphabetic(c) ==
    c \in {"a", "b", "c", "d", "e", "f", "g", "h", "i", "j", "k", "l", "m", "n", "o",
           "p", "q", "r", "s", "t", "u", "v", "w", "x", "y", "z", "A", "B", "C", "O",
           "S", EAcute}

DigitValue(c) ==
    CASE c = "0" -> 0 [] c = "1" -> 1 [] c = "2" -> 2 [] c = "3" -> 3 [] c = "4" -> 4
      [] c = "5" -> 5 [] c = "6" -> 6 [] c = "7" -> 7 [] c = "8" -> 8 [] c = "9" -> 9

\* str::parse::<f64> on digits with at most one "." inside: the digits read as
\* a whole number, over ten to the number of digits after the point.
RECURSIVE ParseDigits(_, _, _, _)
ParseDigits(chars, i, whole, scale) ==
    IF i > Len(chars) THEN Ratio(whole, scale)
    ELSE IF chars[i] = "." THEN ParseDigits(chars, i + 1, whole, 1)
    ELSE ParseDigits(chars, i + 1, whole * 10 + DigitValue(chars[i]),
                     IF scale = 0 THEN 0 ELSE scale * 10)

parse_f64(chars) ==
    LET value == ParseDigits(chars, 1, 0, 0)
    IN  IF "." \in {chars[i] : i \in DOMAIN chars}
        THEN value ELSE Number(value.num)

NewTokenizer(source) ==
    [source |-> source, tokens |-> <<>>, start_of_lexeme |-> 0, current_char |-> 0,
     line |-> 1, column |-> 0, errors |-> <<>>, status |-> "scanning"]

ScanError(t, msg) == [msg |-> msg, line |-> t.line, column |-> t.column]

scan_is_at_end(t) == t.current_char >= len(t.source)

\* chars().nth(index) is None past the last character.
HasChar(t, index) == index < Len(t.source)

\* Tokenizer::peek; the unwrap panics between the character count and the byte length.
PeekPanics(t) == ~scan_is_at_end(t) /\ ~HasChar(t, t.current_char)
scan_peek(t) == IF scan_is_at_end(t) THEN "\\0" ELSE t.source[t.current_char + 1]

\* Tokenizer::peek_next
PeekNextPanics(t) == t.current_char + 1 < len(t.source) /\ ~HasChar(t, t.current_char + 1)
scan_peek_next(t) ==
    IF t.current_char + 1 >= len(t.source) THEN "\\0" ELSE t.source[t.current_char + 2]

\* Tokenizer::advance: past the last character it prints and exits the process.
scan_advance(t) ==
    IF HasChar(t, t.current_char) THEN [t EXCEPT !.current_char = @ + 1]
    ELSE [t EXCEPT !.status = "exited"]

Panicked(t) == [t EXCEPT !.status = "panicked"]

\* Tokenizer::match_char, as the tokenizer after it; Matches tells what it returned.
Matches(t, expected_next) ==
    ~scan_is_at_end(t) /\ HasChar(t, t.current_char)
        /\ t.source[t.current_char + 1] = expected_next
match_char(t, expected_next) ==
    IF scan_is_at_end(t) THEN t
    ELSE IF ~HasChar(t, t.current_char) THEN Panicked(t)
    ELSE IF Matches(t, expected_next) THEN [t EXCEPT !.current_char = @ + 1]
    ELSE t

\* Tokenizer::match_keyword
match_keyword(word) ==
    CASE word = "and" -> "And"       [] word = "class" -> "Class"
      [] word = "else" -> "Else"     [] word = "false" -> "False"
      [] word = "for" -> "For"       [] word = "fun" -> "Fun"
      [] word = "if" -> "If"         [] word = "nil" -> "Nil"
      [] word = "or" -> "Or"         [] word = "print" -> "Print"
      [] word = "return" -> "Return" [] word = "super" -> "Super"
      [] word = "self" -> "Self_"    [] word = "true" -> "True"
      [] word = "var" -> "Var"       [] word = "while" -> "While"
      [] OTHER -> "Identifier"

ScannedToken(kind, lexeme, line, column, literal) ==
    [kind |-> kind, lexeme |-> lexeme, line |-> line, column |-> column,
     literal |-> literal]

\* Tokenizer::add_token
PushToken(t, kind, text, literal) ==
    IF text.tag = "Panic" THEN Panicked(t)
    ELSE [t EXCEPT !.tokens =
            Append(@, ScannedToken(kind, Concat(text.chars), t.line, t.column, literal))]
add_token(t, kind, literal) ==
    IF t.status # "scanning" THEN t
    ELSE PushToken(t, kind, Slice(t.source, t.start_of_lexeme, t.current_char), literal)

\* The condition of each `while` of scan_token, on the character peek returns.
Continues(loop, t) ==
    CASE loop = "comment" -> scan_peek(t) # "\n" /\ ~scan_is_at_end(t)
      [] loop = "string" ->
            scan_peek(t) # "\"" /\ ~scan_is_at_end(t) /\ scan_peek(t) # "\n"
      [] loop = "digits" -> is_numeric(scan_peek(t))
      [] loop = "word" ->
            ~(\/ scan_peek(t) \in {"\n", " ", "\t", "(", ")", "{", "}", ",", ".", ";"}
              \/ scan_is_at_end(t))

\* `while <condition> { self.advance(); }`
RECURSIVE AdvanceWhile(_, _)
AdvanceWhile(loop, t) ==
    IF t.status # "scanning" THEN t
    ELSE IF PeekPanics(t) THEN Panicked(t)
    ELSE IF Continues(loop, t) THEN AdvanceWhile(loop, scan_advance(t))
    ELSE t

\* The one- or two-character operators: "!" "=" "<" ">" with or without "=".
ScanOperator(t, one, two) ==
    add_token(match_char(t, "="), IF Matches(t, "=") THEN two ELSE one, NoLiteral)

\* '/' arm: a comment up to the end of the line, or a Slash.
ScanSlash(t) ==
    IF Matches(t, "/") THEN AdvanceWhile("comment", match_char(t, "/"))
    ELSE add_token(match_char(t, "/"), "Slash", NoLiteral)

\* The closing quote is consumed and the text between the quotes is the literal.
StringLiteral(text) ==
    IF text.tag = "Panic" THEN NoLiteral ELSE String(Concat(text.chars))
CloseString(t) ==
    IF Slice(t.source, t.start_of_lexeme + 1, t.current_char - 1).tag = "Panic"
    THEN Panicked(t)
    ELSE PushToken(t, "String", Slice(t.source, t.start_of_lexeme, t.current_char),
                   StringLiteral(Slice(t.source, t.start_of_lexeme + 1,
                                       t.current_char - 1)))

\* The end of the '"' arm: the error, or the closing quote and the token.
EndString(t) ==
    IF t.status # "scanning" THEN t
    ELSE IF scan_peek(t) = "\n" \/ scan_is_at_end(t)
    THEN [t EXCEPT !.errors = Append(@, ScanError(t, "Unterminated string."))]
    ELSE CloseString(scan_advance(t))

\* '"' arm
ScanString(t) == EndString(AdvanceWhile("string", t))

\* The fraction of a number: "." followed by a digit, then digits.
ScanFraction(t) ==
    IF t.status # "scanning" THEN t
    ELSE IF scan_peek(t) # "." THEN t
    ELSE IF PeekNextPanics(t) THEN Panicked(t)
    ELSE IF is_numeric(scan_peek_next(t)) THEN AdvanceWhile("digits", scan_advance(t))
    ELSE t

NumberLiteral(text) ==
    IF text.tag = "Panic" THEN NoLiteral ELSE parse_f64(text.chars)
EndNumber(t) ==
    IF t.status # "scanning" THEN t
    ELSE PushToken(t, "Number", Slice(t.source, t.start_of_lexeme, t.current_char),
                   NumberLiteral(Slice(t.source, t.start_of_lexeme, t.current_char)))

\* A digit: digits, an optional fraction, and the Number token.
ScanNumber(t) == EndNumber(ScanFraction(AdvanceWhile("digits", t)))

KeywordOf(text) ==
    IF text.tag = "Panic" THEN "Identifier" ELSE match_keyword(Concat(text.chars))
EndWord(t) ==
    IF t.status # "scanning" THEN t
    ELSE PushToken(t, KeywordOf(Slice(t.source, t.start_of_lexeme, t.current_char)),
                   Slice(t.source, t.start_of_lexeme, t.current_char), NoLiteral)

\* A letter: everything up to a terminator, matched against the keywords.
ScanWord(t) == EndWord(AdvanceWhile("word", t))

ScanUnrecognized(t, current_char) ==
    [t EXCEPT !.errors =
        Append(@, ScanError(t, "Unrecognized character \"" \o current_char \o "\"."))]

SingleKind(c) ==
    CASE c = "(" -> "LeftParen"  [] c = ")" -> "RightParen"
      [] c = "{" -> "LeftBrace"  [] c = "}" -> "RightBrace"
      [] c = "," -> "Comma"      [] c = "." -> "Dot"
      [] c = "-" -> "Minus"      [] c = "+" -> "Plus"
      [] c = ";" -> "Semicolon"  [] c = "*" -> "Star"

Singles == {"(", ")", "{", "}", ",", ".", "-", "+", ";", "*"}
Blanks == {" ", "\r", "\t"}

\* The match of scan_token on current_char, the character advance returned; t is
\* the tokenizer after that advance.
ScanChar(t, current_char) ==
    CASE current_char = "\n" -> [t EXCEPT !.line = @ + 1]
      [] current_char \in Blanks -> t
      [] current_char \in Singles -> add_token(t, SingleKind(current_char), NoLiteral)
      [] current_char = "!" -> ScanOperator(t, "Bang", "BangEqual")
      [] current_char = "=" -> ScanOperator(t, "Equal", "EqualEqual")
      [] current_char = "<" -> ScanOperator(t, "Less", "LessEqual")
      [] current_char = ">" -> ScanOperator(t, "Greater", "GreaterEqual")
      [] current_char = "/" -> ScanSlash(t)
      [] current_char = "\"" -> ScanString(t)
      [] is_numeric(current_char) -> ScanNumber(t)
      [] is_alphabetic(current_char) -> ScanWord(t)
      [] OTHER -> ScanUnrecognized(t, current_char)

\* Tokenizer::scan_token
scan_token(t) ==
    IF HasChar(t, t.current_char)
    THEN ScanChar(scan_advance(t), t.source[t.current_char + 1])
    ELSE scan_advance(t)

\* One iteration of the loop of scan_tokens.
ScanStep(t) ==
    scan_token([t EXCEPT !.start_of_lexeme = t.current_char,
                         !.column = t.current_char + 1])

\* The end of scan_tokens: the Eof token, and the return.
PushEof(t) ==
    [t EXCEPT !.tokens = Append(@, ScannedToken("Eof", "", t.line, t.column, NoLiteral)),
              !.status = "returned"]

\* Tokenizer::scan_tokens, run to its end.
RECURSIVE scan_tokens(_)
scan_tokens(t) ==
    IF t.status # "scanning" THEN t
    ELSE IF scan_is_at_end(t) THEN PushEof(t)
    ELSE scan_tokens(ScanStep(t))

\* Before parse has been called.
NoProgram == [tag |-> "Absent"]

\* main has not been entered: the model is of a function called on its own.
NoDriver == [mode |-> "None", phase |-> "none", exit |-> 0, prompts |-> 0]

-----------------------------------------------------------------------------
(* Inputs: the expressions and statements the specifications draw from.    *)
(* They are shapes the parser builds from source text.                     *)

Lit(v) == LiteralExpression(v)
Var(n) == VariableResolutionExpression(Ident(n))
One == Lit(Number(1))
Two == Lit(Number(2))
\* 1 / 0, whose evaluation fails
DivByZero == BinaryExpression(One, Op("Slash"), Lit(Number(0)))

\* "x" is the program's own variable; "OS" is the built-in of the global frame.
Names == {"x", "OS"}

Assign(n, e) == AssignmentStmt(AssignmentExpression(Ident(n), e))

VarDecls == {VarDeclStmt(Ident(n), e) : n \in Names, e \in {One, DivByZero}}
\* The last two are the chained `x = OS = 2;` and `OS = x = 2;`.
Assignments ==
    {Assign(n, e) : n \in Names, e \in {Two, DivByZero}}
    \cup {Assign("x", AssignmentExpression(Ident("OS"), Two)),
          Assign("OS", AssignmentExpression(Ident("x"), Two))}
Prints == {PrintStmt(e) : e \in {Var("x"), Var("OS"), DivByZero}}
Expressions == {ExpressionStmt(e) : e \in {Var("x"), DivByZero}}

\* Statements written inside blocks.
Binders == {VarDeclStmt(Ident(n), Two) : n \in Names} \cup {Assign(n, Two) : n \in Names}
Readers == {PrintStmt(Var("x")), PrintStmt(Var("OS")), ExpressionStmt(DivByZero)}
Inner == Binders \cup Readers

Blocks ==
    {BlockStmt(<<>>)}
    \cup {BlockStmt(<<s>>) : s \in Inner}
    \cup {BlockStmt(<<s, t>>) : s \in Binders, t \in Readers}
    \cup {BlockStmt(<<BlockStmt(<<s>>)>>) : s \in Inner}
    \cup {BlockStmt(<<VarDeclStmt(Ident("x"), One), BlockStmt(<<s>>), PrintStmt(Var("x"))>>) :
            s \in Inner}

\* The bodies of an if chain: each branch writes or binds something of its own.
ThenBody == BlockStmt(<<VarDeclStmt(Ident("x"), Two)>>)
ElseIfBody(i) == BlockStmt(<<PrintStmt(Lit(Number(i)))>>)
ElseBody == BlockStmt(<<Assign("OS", Two), ExpressionStmt(DivByZero)>>)

Conditions == {Lit(Boolean(TRUE)), Lit(Boolean(FALSE)), Var("x")}

ElseIfChains ==
    {<<>>}
    \cup {<<IfStmt(c, ElseIfBody(1), <<>>, NoStmt)>> : c \in Conditions}
    \cup {<<IfStmt(c, ElseIfBody(1), <<>>, NoStmt), IfStmt(d, ElseIfBody(2), <<>>, NoStmt)>> :
            c \in Conditions, d \in Conditions}

Ifs ==
    {IfStmt(c, ThenBody, chain, other) :
        c \in {Lit(Boolean(TRUE)), Var("x")},
        chain \in {ch \in ElseIfChains : Len(ch) < 2 /\ \A i \in DOMAIN ch : ch[i].condition = Lit(Boolean(TRUE))},
        other \in {NoStmt, ElseBody}}
    \cup {IfStmt(Lit(Boolean(FALSE)), ThenBody, chain, other) :
            chain \in ElseIfChains, other \in {NoStmt, ElseBody}}

\* The shapes the interpreter has no code for yet: statements, and expression
\* statements of such an expression.  No parser rule builds them.
ReservedStmtKinds == {"Class", "Function", "Return", "While"}
ReservedExprKinds == {"Call", "Get", "Set", "Super", "Self"}
Reserved ==
    {[kind |-> k] : k \in ReservedStmtKinds}
    \cup {ExpressionStmt([kind |-> k]) : k \in ReservedExprKinds}

-----------------------------------------------------------------------------
(* interpret (src/src/interpreter.rs): one action per kind of statement,   *)
(* each one iteration of the loop over the statement list.                 *)

HostOS == "linux"

\* Before any expression has been evaluated on its own.
NoExpr == [kind |-> "Absent"]
NoResult == [tag |-> "Absent"]

\* The frame interpret starts with, after add_builtin_variables.
GlobalFrame == insert(EmptyFrame, "OS", String(HostOS))

Printed(lines) == [i \in DOMAIN lines |-> [by |-> "print", text |-> lines[i]]]
Reported(msg) == [by |-> "report_error", text |-> msg]

\* What the loop does with r, the return of execute: an Err is reported and breaks.
Finish(r) ==
    /\ env' = r.env
    /\ stdout' = stdout \o Printed(r.out)
                    \o (IF r.tag = "Err" THEN <<Reported(r.msg)>> ELSE <<>>)
    /\ status' = (CASE r.tag = "Ok" -> "running"
                    [] r.tag = "Err" -> "stopped"
                    [] r.tag = "Panic" -> "panicked")
    /\ log' = r.log

Iteration(statement) ==
    /\ status = "running"
    /\ executed < MaxStmts
    /\ Finish(execute(statement, env))
    /\ executed' = executed + 1
    /\ UNCHANGED <<expr, result, parser, tokenizer, program, driver>>

InterpretVarDecl ==
    \E statement \in VarDecls :
        /\ statement.kind = "VarDecl"
        /\ Iteration(statement)

InterpretAssignment ==
    \E statement \in Assignments :
        /\ statement.kind = "Assignment"
        /\ Iteration(statement)

InterpretBlock ==
    \E statement \in Blocks :
        /\ statement.kind = "Block"
        /\ Iteration(statement)

InterpretExpression ==
    \E statement \in Expressions :
        /\ statement.kind = "Expression"
        /\ Iteration(statement)

InterpretIf ==
    \E statement \in Ifs :
        /\ statement.kind = "If"
        /\ Iteration(statement)

InterpretPrint ==
    \E statement \in Prints :
        /\ statement.kind = "Print"
        /\ Iteration(statement)

InterpretReserved ==
    \E statement \in Reserved :
        /\ statement.kind \in ReservedStmtKinds \cup {"Expression"}
        /\ Iteration(statement)

Init ==
    /\ env = <<GlobalFrame>>
    /\ stdout = <<>>
    /\ status = "running"
    /\ executed = 0
    /\ log = <<>>
    /\ expr = NoExpr
    /\ result = NoResult
    /\ parser = NewParser(<<Op("Eof")>>)
    /\ tokenizer = NewTokenizer(<<>>)
    /\ program = NoProgram
    /\ driver = NoDriver

Next ==
    \/ InterpretVarDecl
    \/ InterpretAssignment
    \/ InterpretBlock
    \/ InterpretExpression
    \/ InterpretIf
    \/ InterpretPrint
    \/ InterpretReserved

Spec == Init /\ [][Next]_vars

-----------------------------------------------------------------------------
(* evaluate as a function of its inputs: the operands are drawn from       *)
(* bounded sets and every kind of expression is evaluated on them.         *)

Values ==
    {Number(n) : n \in 0..MaxNum} \cup {String(""), String("a")}
    \cup {Boolean(TRUE), Boolean(FALSE)} \cup {Nil}

\* Literals of every value, `var`'s missing initializer, a variable (declared in
\* some of the environments, undeclared in others) and the failing 1 / 0.
Operands == {Lit(v) : v \in Values} \cup {Lit(NoLiteral), Var("x"), DivByZero}

BinaryOperators ==
    {"Plus", "Minus", "Star", "Slash", "BangEqual", "EqualEqual",
     "Greater", "GreaterEqual", "Less", "LessEqual"}
LogicalOperators == {"And", "Or"}

\* Environments evaluate runs in: at top level, with and without x declared, and
\* inside a block that declared x.
EvalEnvs ==
    {<<GlobalFrame>>,
     <<insert(GlobalFrame, "x", Number(1))>>,
     <<GlobalFrame, insert(EmptyFrame, "x", String(""))>>}

\* The tokens of `<prefix operators> <operand> ;`
PrefixChains == UNION {[1..k -> {"Bang", "Minus"}] : k \in 1..MaxChain}
OperandTokens ==
    {NumberToken(n) : n \in 0..MaxNum} \cup {StringToken(""), StringToken("a")}
    \cup {Op("True"), Op("False"), Op("Nil"), Ident("x")}
UnaryTokens(chain, operand) ==
    [i \in DOMAIN chain |-> Op(chain[i])] \o <<operand, Op("Semicolon"), Op("Eof")>>

\* One call of evaluate on e, in the environment the behaviour started with.
Evaluated(e) ==
    /\ result = NoResult
    /\ expr' = e
    /\ result' = evaluate(e, env)
    /\ UNCHANGED <<env, stdout, status, executed, log, tokenizer, program, driver>>

EvaluateOperand ==
    \E e \in Operands :
        /\ parser' = parser
        /\ Evaluated(e)

EvaluateGrouping ==
    \E e \in Operands :
        /\ parser' = parser
        /\ Evaluated(GroupingExpression(e))

EvaluateBinary ==
    \E operator \in BinaryOperators, left \in Operands, right \in Operands :
        /\ parser' = parser
        /\ Evaluated(BinaryExpression(left, Op(operator), right))

EvaluateLogical ==
    \E operator \in LogicalOperators, left \in Operands, right \in Operands :
        /\ parser' = parser
        /\ Evaluated(LogicalExpression(left, Op(operator), right))

\* A prefix chain is parsed from its tokens by expression_rule, then evaluated.
Parsing(parsed) ==
    /\ parser' = parsed.p
    /\ Evaluated(parsed.expr)

EvaluateUnary ==
    \E chain \in PrefixChains, operand \in OperandTokens :
        /\ Len(chain) <= MaxChain
        /\ Parsing(expression_rule(NewParser(UnaryTokens(chain, operand))))

InitEval ==
    /\ env \in EvalEnvs
    /\ stdout = <<>>
    /\ status = "running"
    /\ executed = 0
    /\ log = <<>>
    /\ expr = NoExpr
    /\ result = NoResult
    /\ parser = NewParser(<<Op("Eof")>>)
    /\ tokenizer = NewTokenizer(<<>>)
    /\ program = NoProgram
    /\ driver = NoDriver

NextEval ==
    \/ EvaluateOperand
    \/ EvaluateGrouping
    \/ EvaluateBinary
    \/ EvaluateLogical
    \/ EvaluateUnary

SpecEval == InitEval /\ [][NextEval]_vars

-----------------------------------------------------------------------------
(* scan_tokens and parse as run calls them (src/src/main.rs): one action   *)
(* per iteration of the tokenizer's loop, by the character it starts at,   *)
(* then the parse of the token list.                                       *)

\* The characters short sources are made of: one of each kind scan_token tells
\* apart, and two characters longer than one byte.
ScanChars == {"\n", " ", ";", "=", "/", "\"", "1", ".", "a", "@", EAcute, Euro}

\* `if true { a; } else if true { b; } else { c; }`
ElseIfSource ==
    <<"i", "f", " ", "t", "r", "u", "e", " ", "{", " ", "a", ";", " ", "}", " ", "e",
      "l", "s", "e", " ", "i", "f", " ", "t", "r", "u", "e", " ", "{", " ", "b", ";",
      " ", "}", " ", "e", "l", "s", "e", " ", "{", " ", "c", ";", " ", "}">>

\* `if false { a; } else { c; }`
IfElseSource ==
    <<"i", "f", " ", "f", "a", "l", "s", "e", " ", "{", " ", "a", ";", " ", "}", " ",
      "e", "l", "s", "e", " ", "{", " ", "c", ";", " ", "}">>

\* an unterminated string, then a statement on the next line
TwoLineSource ==
    <<"v", "a", "r", " ", "s", " ", "=", " ", "\"", "a", "\n", "p", "r", "i", "n", "t",
      " ", "s", ";">>

\* `if`, carriage return, newline, `a;`
ReturnSource == <<"i", "f", "\r", "\n", "a", ";">>

Programs == {ElseIfSource, IfElseSource, TwoLineSource, ReturnSource}

ShortSources == UNION {[1..n -> ScanChars] : n \in 0..MaxSrc}

Sources == ShortSources \cup Programs

\* The character the next scan_token starts at, when there is one.
Scanning == tokenizer.status = "scanning" /\ ~scan_is_at_end(tokenizer)
AtChar(class) ==
    /\ Scanning
    /\ HasChar(tokenizer, tokenizer.current_char)
    /\ tokenizer.source[tokenizer.current_char + 1] \in class

Scanned ==
    /\ tokenizer' = ScanStep(tokenizer)
    /\ UNCHANGED <<env, stdout, status, executed, log, expr, result, parser, program, driver>>

Operators == {"!", "=", "<", ">"}
Digits == {c \in ScanChars \cup {"0", "2"} : is_numeric(c)}
Letters ==
    {c \in ScanChars \cup {"b", "c", "e", "f", "i", "l", "n", "p", "r", "s", "t", "u", "v"} :
        is_alphabetic(c)}

TokenizeNewline ==
    /\ AtChar({"\n"})
    /\ Scanned

TokenizeBlank ==
    /\ AtChar(Blanks)
    /\ Scanned

TokenizeSingle ==
    /\ AtChar(Singles)
    /\ Scanned

TokenizeOperator ==
    /\ AtChar(Operators)
    /\ Scanned

TokenizeSlash ==
    /\ AtChar({"/"})
    /\ Scanned

TokenizeString ==
    /\ AtChar({"\""})
    /\ Scanned

TokenizeNumber ==
    /\ AtChar(Digits)
    /\ Scanned

TokenizeWord ==
    /\ AtChar(Letters)
    /\ Scanned

TokenizeUnrecognized ==
    /\ AtChar({"@", Euro})
    /\ Scanned

\* The cursor is past the last character but not past the last byte.
TokenizePastEnd ==
    /\ Scanning
    /\ ~HasChar(tokenizer, tokenizer.current_char)
    /\ Scanned

\* The loop of scan_tokens is over: Eof is pushed and the vectors are returned.
TokenizeEof ==
    /\ tokenizer.status = "scanning"
    /\ scan_is_at_end(tokenizer)
    /\ tokenizer' = PushEof(tokenizer)
    /\ UNCHANGED <<env, stdout, status, executed, log, expr, result, parser, program, driver>>

ParseReturned(r) ==
    /\ parser' = r.p
    /\ program' = [tag |-> (CASE r.p.panicked -> "Panic"
                             [] r.p.hung -> "Hang"
                             [] OTHER -> "Ok"),
                    statements |-> r.statements]

\* run goes on to the parser only when the tokenizer recorded no error.
ParseTokens ==
    /\ tokenizer.status = "returned"
    /\ tokenizer.errors = <<>>
    /\ program = NoProgram
    /\ ParseReturned(parse(NewParser(BareTokens(tokenizer.tokens))))
    /\ UNCHANGED <<env, stdout, status, executed, log, expr, result, tokenizer, driver>>

InitScan ==
    /\ env = <<GlobalFrame>>
    /\ stdout = <<>>
    /\ status = "running"
    /\ executed = 0
    /\ log = <<>>
    /\ expr = NoExpr
    /\ result = NoResult
    /\ parser = NewParser(<<Op("Eof")>>)
    /\ tokenizer \in {NewTokenizer(source) : source \in Sources}
    /\ program = NoProgram
    /\ driver = NoDriver

NextScan ==
    \/ TokenizeNewline
    \/ TokenizeBlank
    \/ TokenizeSingle
    \/ TokenizeOperator
    \/ TokenizeSlash
    \/ TokenizeString
    \/ TokenizeNumber
    \/ TokenizeWord
    \/ TokenizeUnrecognized
    \/ TokenizePastEnd
    \/ TokenizeEof
    \/ ParseTokens

SpecScan == InitScan /\ [][NextScan]_vars

-----------------------------------------------------------------------------
(* parse as a function of the token list, and interpret on what it parsed  *)
(* (run in src/src/main.rs, from Parser::new on).                          *)

\* The tokens short lists are made of.
ParseAlphabet ==
    {Op("Var"), Ident("a"), Op("Equal"), Op("Semicolon"), NumberToken(1), Op("Or"),
     Op("And"), Op("Minus"), Op("Star"), Op("LeftBrace")}

ShortTokenLists ==
    {tokens \o <<Op("Eof")>> :
        tokens \in UNION {[1..n -> ParseAlphabet] : n \in 0..MaxTokens}}

\* `a <first> b <second> c ;`
ChainTokens(first, second) ==
    <<Ident("a"), Op(first), Ident("b"), Op(second), Ident("c"), Op("Semicolon"),
      Op("Eof")>>

InfixOperators == BinaryOperators \cup LogicalOperators

Chains == {ChainTokens(first, second) : first \in InfixOperators, second \in InfixOperators}

\* `print (1 + 2) * -3 / 2;`
PrintTokens ==
    <<Op("Print"), Op("LeftParen"), NumberToken(1), Op("Plus"), NumberToken(2),
      Op("RightParen"), Op("Star"), Op("Minus"), NumberToken(3), Op("Slash"),
      NumberToken(2), Op("Semicolon"), Op("Eof")>>

TokenLists == ShortTokenLists \cup Chains \cup {PrintTokens}

\* Parser::parse on the tokens the parser was made with.
ParseStatements ==
    /\ program = NoProgram
    /\ parser.current = 0
    /\ ParseReturned(parse(parser))
    /\ UNCHANGED <<env, stdout, status, executed, log, expr, result, tokenizer, driver>>

\* One iteration of interpret's loop over the parsed statements; run calls
\* interpret only when the parser recorded no error.
InterpretParsed ==
    /\ program.tag = "Ok"
    /\ parser.errors = <<>>
    /\ status = "running"
    /\ executed < Len(program.statements)
    /\ Finish(execute(program.statements[executed + 1], env))
    /\ executed' = executed + 1
    /\ UNCHANGED <<expr, result, parser, tokenizer, program, driver>>

InitParse ==
    /\ env = <<GlobalFrame>>
    /\ stdout = <<>>
    /\ status = "running"
    /\ executed = 0
    /\ log = <<>>
    /\ expr = NoExpr
    /\ result = NoResult
    /\ parser \in {NewParser(tokens) : tokens \in TokenLists}
    /\ tokenizer = NewTokenizer(<<>>)
    /\ program = NoProgram
    /\ driver = NoDriver

NextParse ==
    \/ ParseStatements
    \/ InterpretParsed

SpecParse == InitParse /\ [][NextParse]_vars

-----------------------------------------------------------------------------
(* main (src/src/main.rs): run_file and run_prompt, and run step by step.  *)

\* `print 1;`: runs without error
PrintInput == <<"p", "r", "i", "n", "t", " ", "1", ";">>
\* `@`: a tokenizer error
UnrecognizedInput == <<"@">>
\* `print 1`: a parse error
NoSemicolonInput == <<"p", "r", "i", "n", "t", " ", "1">>
\* `print a;`: a runtime error
UndeclaredInput == <<"p", "r", "i", "n", "t", " ", "a", ";">>
\* `print 1;print a;`: a line printed, then a runtime error
TwoPrintsInput == <<"p", "r", "i", "n", "t", " ", "1", ";", "p", "r", "i", "n", "t", " ", "a", ";">>
\* `var a`: a parse error with no `;` after it
VarInput == <<"v", "a", "r", " ", "a">>
\* a character of two bytes: the tokenizer aborts
AccentInput == <<EAcute>>

Inputs ==
    {PrintInput, UnrecognizedInput, NoSemicolonInput, UndeclaredInput, TwoPrintsInput,
     VarInput, AccentInput}

Driver(mode, phase, exit, prompts) ==
    [mode |-> mode, phase |-> phase, exit |-> exit, prompts |-> prompts]

\* The process ends with the given status.
Exit(code) == [driver EXCEPT !.phase = "exited", !.exit = code]

\* run returns to its caller: main returns after run_file, run_prompt loops.
Return ==
    IF driver.mode = "File" THEN Exit(0) ELSE [driver EXCEPT !.phase = "prompt"]

Diagnostics(msgs) == [i \in DOMAIN msgs |-> Reported(msgs[i])]

\* run_prompt: the prompt, and the line read, handed to run.
PromptLine ==
    /\ driver.mode = "Prompt"
    /\ driver.phase = "prompt"
    /\ driver.prompts < MaxLines
    /\ \E line \in Inputs : tokenizer' = NewTokenizer(line \o <<"\n">>)
    /\ stdout' = Append(stdout, [by |-> "run_prompt", text |-> "Lox> "])
    /\ driver' = [driver EXCEPT !.phase = "read", !.prompts = @ + 1]
    /\ env' = <<GlobalFrame>>
    /\ status' = "running"
    /\ log' = <<>>
    /\ parser' = NewParser(<<Op("Eof")>>)
    /\ program' = NoProgram
    /\ UNCHANGED <<executed, expr, result>>

\* run: scan_tokens; a panic of the tokenizer ends the process with 101.
RunScan ==
    /\ driver.phase = "read"
    /\ tokenizer' = scan_tokens(tokenizer)
    /\ driver' = (CASE tokenizer'.status = "returned" ->
                            [driver EXCEPT !.phase = "tokenized"]
                     [] tokenizer'.status = "panicked" -> Exit(101)
                     [] tokenizer'.status = "exited" -> Exit(1))
    /\ UNCHANGED <<env, stdout, status, executed, log, expr, result, parser, program>>

\* run: tokenizer errors are reported and the process exits with 70, in both modes.
RunTokenizerErrors ==
    /\ driver.phase = "tokenized"
    /\ tokenizer.errors # <<>>
    /\ stdout' = stdout \o [i \in DOMAIN tokenizer.errors |->
                                Reported(tokenizer.errors[i].msg)]
    /\ driver' = Exit(70)
    /\ UNCHANGED <<env, status, executed, log, expr, result, parser, tokenizer, program>>

\* run: Parser::new(tokens).parse(); the parser reports its errors as it meets them.
RunParsed(r) ==
    /\ ParseReturned(r)
    /\ stdout' = stdout \o Diagnostics(r.p.errors)
    /\ driver' = (CASE r.p.panicked -> Exit(101)
                     [] r.p.hung -> [driver EXCEPT !.phase = "hung"]
                     [] OTHER -> [driver EXCEPT !.phase = "parsed"])

RunParse ==
    /\ driver.phase = "tokenized"
    /\ tokenizer.errors = <<>>
    /\ RunParsed(parse(NewParser(BareTokens(tokenizer.tokens))))
    /\ UNCHANGED <<env, status, executed, log, expr, result, tokenizer>>

\* run: with parse errors a file run exits with 1, a prompt run returns.
RunParseErrors ==
    /\ driver.phase = "parsed"
    /\ parser.errors # <<>>
    /\ driver' = (IF driver.mode = "File" THEN Exit(1)
                  ELSE [driver EXCEPT !.phase = "prompt"])
    /\ UNCHANGED <<env, stdout, status, executed, log, expr, result, parser, tokenizer,
                   program>>

\* run: interpret(&statements), then the return of run.
RunInterpreted(r) ==
    /\ Finish(r)
    /\ driver' = (IF r.tag = "Panic" THEN Exit(101) ELSE Return)

RunInterpret ==
    /\ driver.phase = "parsed"
    /\ parser.errors = <<>>
    /\ RunInterpreted(ExecStatements(program.statements, 1,
                                     OkReturn(<<GlobalFrame>>, <<>>, <<>>)))
    /\ UNCHANGED <<executed, expr, result, parser, tokenizer, program>>

InitRun ==
    /\ env = <<GlobalFrame>>
    /\ stdout = <<>>
    /\ status = "running"
    /\ executed = 0
    /\ log = <<>>
    /\ expr = NoExpr
    /\ result = NoResult
    /\ parser = NewParser(<<Op("Eof")>>)
    /\ program = NoProgram
    /\ \/ /\ driver = Driver("File", "read", 0, 0)
          /\ tokenizer \in {NewTokenizer(content) : content \in Inputs}
       \/ /\ driver = Driver("Prompt", "prompt", 0, 0)
          /\ tokenizer = NewTokenizer(<<>>)

NextRun ==
    \/ PromptLine
    \/ RunScan
    \/ RunTokenizerErrors
    \/ RunParse
    \/ RunParseErrors
    \/ RunInterpret

SpecRun == InitRun /\ [][NextRun]_vars

-----------------------------------------------------------------------------
(* Properties of execute, read off the log of the last loop iteration      *)

Entries == {log[i] : i \in DOMAIN log}
EntriesOf(kind) == {entry \in Entries : entry.stmt.kind = kind}

Innermost(e) == e[Len(e)]

\* The names each frame of e holds, frame by frame.
NamesOf(e) == [k \in DOMAIN e |-> DOMAIN e[k]]

\* C1: a VarDecl whose initializer evaluates fails with "already declared" if
\* and only if its name is bound in the innermost frame it runs in; a name bound
\* only in an outer frame is declared anew in the current frame.
C1_AlreadyDeclaredOnlyInCurrentFrame ==
    \A entry \in EntriesOf("VarDecl") :
        evaluate(entry.stmt.initializer, entry.before).tag = "Ok" =>
            IF contains_key(Innermost(entry.before), entry.stmt.name.lexeme)
            THEN entry.tag = "Err" /\ entry.msg = AlreadyDeclared(entry.stmt.name)
            ELSE /\ entry.tag = "Ok"
                 /\ contains_key(Innermost(entry.after), entry.stmt.name.lexeme)

\* C2: a successful Assignment updates the binding in the innermost frame that
\* defines the name and leaves every other frame as it was.
C2_AssignmentUpdatesDefiningFrame ==
    \A entry \in EntriesOf("Assignment") :
        entry.tag = "Ok" =>
            LET name == entry.stmt.expression.name.lexeme
                defining == get_symbol_in_scope(entry.before, name).frame
                value == evaluate(entry.stmt.expression.value, entry.before).val
            IN  entry.after =
                    [entry.before EXCEPT ![defining] = insert(@, name, value)]

\* C3: a Block that completes without error leaves as many frames as it found,
\* and every frame that existed before holds the names it held before.
C3_BlockKeepsFrames ==
    \A entry \in EntriesOf("Block") :
        entry.tag = "Ok" =>
            /\ Len(entry.after) = Len(entry.before)
            /\ NamesOf(entry.after) = NamesOf(entry.before)

\* A block nested in another block or run as the body of an if, which declared
\* a variable of its own, has completed.
C3_Witness ==
    \E entry \in EntriesOf("Block") :
        /\ entry.tag = "Ok"
        /\ Len(entry.before) >= 2
        /\ \E i \in DOMAIN entry.stmt.statements :
                entry.stmt.statements[i].kind = "VarDecl"

\* C4: when a Block returns an error, the frame it pushed has been popped: the
\* frame count is the one before the block was entered.
C4_BlockPopsOnError ==
    \A entry \in EntriesOf("Block") :
        entry.tag = "Err" => Len(entry.after) = Len(entry.before)

\* C10: an If runs at most one body.  With the conditions of the chain in order
\* (the if's, then each else-if's): the body of the first truthy condition runs
\* and no later condition is evaluated; when every condition is falsy, all were
\* evaluated and the else body runs if there is one.
ChainConditions(stmt) ==
    <<stmt.condition>>
        \o [i \in DOMAIN stmt.else_if_branches |-> stmt.else_if_branches[i].condition]
ChainBodies(stmt) ==
    <<stmt.then_branch>>
        \o [i \in DOMAIN stmt.else_if_branches |-> stmt.else_if_branches[i].then_branch]

\* Claim-level truthiness: nil, false, 0 and "" are falsy.
Truthy(v) ==
    CASE v.t = "Nil" -> FALSE
      [] v.t = "Boolean" -> v.b
      [] v.t = "Number" -> v.num # 0
      [] v.t = "String" -> v.s # ""

Holds(condition, e) ==
    evaluate(condition, e).tag = "Ok" /\ Truthy(evaluate(condition, e).val)
Fails(condition, e) ==
    evaluate(condition, e).tag = "Ok" /\ ~Truthy(evaluate(condition, e).val)

C10_IfRunsFirstTruthyBranch ==
    \A entry \in EntriesOf("If") :
        LET conds == ChainConditions(entry.stmt)
            bodies == ChainBodies(entry.stmt)
        IN  /\ Len(entry.bodies) <= 1
            /\ \A j \in DOMAIN conds :
                    (/\ \A k \in 1..(j - 1) : Fails(conds[k], entry.before)
                     /\ Holds(conds[j], entry.before))
                    => /\ entry.conditions = SubSeq(conds, 1, j)
                       /\ entry.bodies = <<bodies[j]>>
            /\ (\A k \in DOMAIN conds : Fails(conds[k], entry.before))
                    => /\ entry.conditions = conds
                       /\ entry.bodies = (IF entry.stmt.else_branch = NoStmt THEN <<>>
                                          ELSE <<entry.stmt.else_branch>>)

\* An if whose condition is falsy ran its first else-if and evaluated neither
\* the second else-if's condition nor ran the else body that follows.
C10_Witness ==
    \E entry \in EntriesOf("If") :
        /\ Len(entry.stmt.else_if_branches) = 2
        /\ entry.stmt.else_branch # NoStmt
        /\ Len(entry.conditions) = 2
        /\ entry.bodies = <<entry.stmt.else_if_branches[1].then_branch>>
        /\ entry.tag = "Ok"

-----------------------------------------------------------------------------
(* Properties of evaluate, on the expression evaluated last                *)

LeftResult == evaluate(expr.left, env)
RightResult == evaluate(expr.right, env)

IsLogical(operator) == expr.kind = "Logical" /\ expr.operator.kind = operator
IsBinary(operator) == expr.kind = "Binary" /\ expr.operator.kind = operator

\* C5: logical operators short-circuit.  When the left operand decides the
\* result (falsy for `and`, truthy for `or`) the right operand is not evaluated,
\* so the expression yields its value whatever the right operand would do.
C5_LogicalShortCircuits ==
    (expr.kind = "Logical" /\ LeftResult.tag = "Ok") =>
        /\ (IsLogical("And") /\ ~Truthy(LeftResult.val))
                => result = Ok(Boolean(FALSE))
        /\ (IsLogical("Or") /\ Truthy(LeftResult.val))
                => result = Ok(LeftResult.val)

\* C6: with both operands evaluating without error, `or` yields the left value
\* if it is truthy, else the right value if that is truthy, else false; `and`
\* yields the right value if both are truthy, else false.
C6_LogicalYieldsOperand ==
    (expr.kind = "Logical" /\ LeftResult.tag = "Ok" /\ RightResult.tag = "Ok") =>
        /\ IsLogical("Or") =>
                result = Ok(IF Truthy(LeftResult.val) THEN LeftResult.val
                            ELSE IF Truthy(RightResult.val) THEN RightResult.val
                            ELSE Boolean(FALSE))
        /\ IsLogical("And") =>
                result = Ok(IF Truthy(LeftResult.val) /\ Truthy(RightResult.val)
                            THEN RightResult.val
                            ELSE Boolean(FALSE))

\* `"a" and 2` has yielded the number 2, not true.
C6_Witness ==
    /\ expr = LogicalExpression(Lit(String("a")), Op("And"), Two)
    /\ result = Ok(Number(2))

\* C7: `a != b` is true for values of different variants, in either order, and
\* is the negation of `a == b` for every pair of values.
C7_BangEqualNegatesEqualEqual ==
    (IsBinary("BangEqual") /\ LeftResult.tag = "Ok" /\ RightResult.tag = "Ok") =>
        /\ LeftResult.val.t # RightResult.val.t => result = Ok(Boolean(TRUE))
        /\ result =
            Ok(Boolean(~evaluate(BinaryExpression(expr.left, Op("EqualEqual"), expr.right),
                                 env).val.b))

\* Two values are the same variant with the same payload.
SameValue(a, b) == a.t = b.t /\ a = b

\* C8: `a == b` never fails on operands that evaluate, and is true exactly when
\* both are the same variant with equal payload.
C8_EqualEqualIsSameValue ==
    (IsBinary("EqualEqual") /\ LeftResult.tag = "Ok" /\ RightResult.tag = "Ok") =>
        result = Ok(Boolean(SameValue(LeftResult.val, RightResult.val)))

\* `"a" == "a"` has yielded true.
C8_Witness ==
    /\ expr = BinaryExpression(Lit(String("a")), Op("EqualEqual"), Lit(String("a")))
    /\ result = Ok(Boolean(TRUE))

\* The expression a prefix chain stands for: each operator applied to the rest.
RECURSIVE ChainExpr(_, _)
ChainExpr(tokens, i) ==
    CASE tokens[i].kind \in {"Bang", "Minus"} ->
            UnaryExpression(tokens[i], ChainExpr(tokens, i + 1))
      [] tokens[i].kind \in {"Number", "String"} -> Lit(tokens[i].literal)
      [] tokens[i].kind = "True" -> Lit(Boolean(TRUE))
      [] tokens[i].kind = "False" -> Lit(Boolean(FALSE))
      [] tokens[i].kind = "Nil" -> Lit(Nil)
      [] tokens[i].kind = "Identifier" -> VariableResolutionExpression(tokens[i])

IsNot(e) == e.kind = "Unary" /\ e.operator.kind = "Bang"

\* C9: `!x` is Boolean(not truthy(x)) and `!!x` is Boolean(truthy(x)) for every
\* value x, without error; and the parser takes any chain of `!` / `-` prefixes:
\* no parse error, every operator consumed, the operators nested right to left.
C9_NotIsNegatedTruthiness ==
    /\ (IsNot(expr) /\ evaluate(expr.right, env).tag = "Ok")
            => result = Ok(Boolean(~Truthy(evaluate(expr.right, env).val)))
    /\ (IsNot(expr) /\ IsNot(expr.right) /\ evaluate(expr.right.right, env).tag = "Ok")
            => result = Ok(Boolean(Truthy(evaluate(expr.right.right, env).val)))
    /\ (expr.kind = "Unary")
            => /\ parser.errors = <<>>
               /\ ~parser.panicked
               /\ peek(parser).kind = "Semicolon"
               /\ parser.current = Len(parser.tokens) - 2
               /\ expr = ChainExpr(parser.tokens, 1)

\* `!!0` has been parsed and has yielded false.
C9_Witness ==
    /\ parser.tokens = UnaryTokens(<<"Bang", "Bang">>, NumberToken(0))
    /\ expr = UnaryExpression(Op("Bang"), UnaryExpression(Op("Bang"), Lit(Number(0))))
    /\ result = Ok(Boolean(FALSE))

-----------------------------------------------------------------------------
(* Properties of interpret                                                 *)

\* The lines written by the statements of a log: one per Print that returned Ok.
RECURSIVE PrintedBy(_, _)
PrintedBy(history, i) ==
    IF i > Len(history) THEN <<>>
    ELSE (IF history[i].stmt.kind = "Print" /\ history[i].tag = "Ok"
          THEN <<to_string(evaluate(history[i].stmt.expression, history[i].before).val)>>
          ELSE <<>>) \o PrintedBy(history, i + 1)

Reports(out) == {i \in DOMAIN out : out[i].by = "report_error"}

\* Once a statement of the log failed, only the statements enclosing it return,
\* each with the same error.
StopsAtFirstErr(history) ==
    \A i \in DOMAIN history :
        history[i].tag = "Err" =>
            \A j \in (i + 1)..Len(history) :
                /\ history[j].tag = "Err"
                /\ history[j].msg = history[i].msg
                /\ history[j].stmt.kind \in {"Block", "If"}

\* C11: interpret runs a statement only while no statement has failed.  The step
\* in which a statement fails writes the lines of the prints that succeeded
\* before the failure, then the error's report, once; the failing statement
\* writes nothing, no statement after it runs (inside the enclosing blocks or at
\* top level), and a step without failure writes no report.
C11_StopsAtFirstRuntimeError ==
    [][/\ status = "running"
       /\ StopsAtFirstErr(log')
       /\ (status' = "stopped") = (\E i \in DOMAIN log' : log'[i].tag = "Err")
       /\ stdout' = stdout \o Printed(PrintedBy(log', 1))
                        \o (IF status' = "stopped"
                            THEN <<Reported(log'[Len(log')].msg)>> ELSE <<>>)
       /\ Cardinality(Reports(stdout')) = (IF status' = "stopped" THEN 1 ELSE 0)]_vars

\* A program printed a line, then a statement inside a nested block failed: the
\* print after the nested block did not run and the error was reported once.
C11_Witness ==
    /\ status = "stopped"
    /\ Len(stdout) = 2
    /\ stdout[1].by = "print"
    /\ stdout[2].by = "report_error"
    /\ \E entry \in EntriesOf("Block") :
            /\ Len(entry.stmt.statements) = 3
            /\ entry.tag = "Err"
            /\ \A other \in Entries : other.stmt # entry.stmt.statements[3]

\* C12: an Assignment expression stores its value in the binding of its name
\* and yields the value: after a chained `a = b = v;` that returned Ok, with a
\* and b both declared before it, a and b are both bound to v.
C12_ChainedAssignmentBindsBoth ==
    \A entry \in EntriesOf("Assignment") :
        LET outer == entry.stmt.expression
            inner == outer.value
        IN  (/\ entry.tag = "Ok"
             /\ inner.kind = "Assignment"
             /\ get_symbol_in_scope(entry.before, outer.name.lexeme).tag = "Some"
             /\ get_symbol_in_scope(entry.before, inner.name.lexeme).tag = "Some")
            => /\ get_symbol_in_scope(entry.after, outer.name.lexeme).value
                    = evaluate(inner.value, entry.before).val
               /\ get_symbol_in_scope(entry.after, inner.name.lexeme).value
                    = evaluate(inner.value, entry.before).val

-----------------------------------------------------------------------------
(* Arithmetic                                                              *)

BothOk == LeftResult.tag = "Ok" /\ RightResult.tag = "Ok"

\* The text of a string, or of a whole number as f64::to_string writes it.
Text(v) == IF v.t = "String" THEN v.s ELSE ToString(v.num)

Whole(v) == v.t = "Number" /\ v.den = 1

\* C13: on operands that evaluate, `+` adds two Numbers, concatenates two
\* Strings or a String and a Number (the Number as to_string writes it), and for
\* every other pair returns the type-mismatch error, never a value.
C13_PlusAddsOrConcatenates ==
    (IsBinary("Plus") /\ BothOk) =>
        LET a == LeftResult.val
            b == RightResult.val
        IN  CASE Whole(a) /\ Whole(b) -> result = Ok(Number(a.num + b.num))
              [] {a.t, b.t} \subseteq {"Number", "String"} /\ {a.t, b.t} # {"Number"} ->
                    result = Ok(String(Text(a) \o Text(b)))
              [] OTHER ->
                    result = Err("Operands of \"+\" must be two numbers or two strings.")

\* `2 + "a"` has yielded the string "2a".
C13_Witness ==
    /\ expr = BinaryExpression(Two, Op("Plus"), Lit(String("a")))
    /\ result = Ok(String("2a"))

\* C14: on operands that evaluate, `-`, `*` and `/` yield the Number of the
\* operation when both are Numbers, except that `/` by zero is the
\* divide-by-zero error for every dividend; any other operand is the
\* type-mismatch error.
C14_ArithmeticNeedsNumbers ==
    (expr.kind = "Binary" /\ expr.operator.kind \in {"Minus", "Star", "Slash"} /\ BothOk) =>
        LET a == LeftResult.val
            b == RightResult.val
        IN  CASE ~(Whole(a) /\ Whole(b)) ->
                    result = Err("Operands of \"" \o expr.operator.lexeme
                                    \o "\" must be two numbers.")
              [] IsBinary("Slash") /\ b.num = 0 -> result = Err("Cannot divide by zero.")
              [] IsBinary("Slash") ->
                    /\ result.tag = "Ok"
                    /\ result.val.t = "Number"
                    /\ result.val.den > 0
                    /\ result.val.num * b.num = a.num * result.val.den
              [] IsBinary("Minus") -> result = Ok(Number(a.num - b.num))
              [] IsBinary("Star") -> result = Ok(Number(a.num * b.num))

\* `2 / 0` has returned the divide-by-zero error.
C14_Witness ==
    /\ expr = BinaryExpression(Two, Op("Slash"), Lit(Number(0)))
    /\ result = Err("Cannot divide by zero.")

-----------------------------------------------------------------------------
(* Reserved shapes                                                         *)

IsReserved(stmt) ==
    \/ stmt.kind \in ReservedStmtKinds
    \/ stmt.kind = "Expression" /\ stmt.expression.kind \in ReservedExprKinds

\* C15: executing a reserved statement, or evaluating a reserved expression,
\* returns a runtime error to the caller like any other: interpret reports it
\* and stops; it neither succeeds nor aborts the process.
C15_ReservedShapeIsAnError ==
    /\ status # "panicked"
    /\ \A entry \in Entries :
            IsReserved(entry.stmt) => entry.tag = "Err" /\ status = "stopped"

-----------------------------------------------------------------------------
(* Properties of scan_tokens                                               *)

ScanReturned == tokenizer.status = "returned"
ScanAborted == tokenizer.status \in {"panicked", "exited"}
EofAt(tokens) == {i \in DOMAIN tokens : tokens[i].kind = "Eof"}

\* C16: for every source, scan_tokens returns, and the vector it returns has
\* Eof as its last token and nowhere before, with or without errors recorded.
C16_ResultEndsWithOneEof ==
    tokenizer.status # "scanning" =>
        /\ ScanReturned
        /\ EofAt(tokenizer.tokens) = {Len(tokenizer.tokens)}

\* C17: for no source, multi-byte characters included, does the tokenizer
\* panic or exit the process.
C17_TokenizerNeverAborts == ~ScanAborted

-----------------------------------------------------------------------------
(* Unterminated strings                                                    *)

NewlinesBefore(source, n) ==
    Cardinality({i \in 1..n : i <= Len(source) /\ source[i] = "\n"})

\* The line a lexeme starting at `column` is on.
LineOf(source, column) == 1 + NewlinesBefore(source, column - 1)

OnTheirLines(t) ==
    /\ \A i \in DOMAIN t.tokens :
            t.tokens[i].kind # "Eof" =>
                t.tokens[i].line = LineOf(t.source, t.tokens[i].column)
    /\ \A i \in DOMAIN t.errors :
            t.errors[i].line = LineOf(t.source, t.errors[i].column)

\* The quotes and newlines after the character under the cursor.
StringEnds(t) ==
    {j \in (t.current_char + 2)..Len(t.source) : t.source[j] \in {"\"", "\n"}}
FirstOf(S) == CHOOSE j \in S : \A k \in S : j <= k

\* The cursor is at an opening quote with a newline, or the end of the input,
\* before any closing quote.
Unterminated(t) ==
    /\ t.status = "scanning"
    /\ ~scan_is_at_end(t)
    /\ HasChar(t, t.current_char)
    /\ t.source[t.current_char + 1] = "\""
    /\ (StringEnds(t) # {} => t.source[FirstOf(StringEnds(t))] = "\n")

\* Where the scan of an unterminated string stops: at the newline, or at the end.
StopOf(t) ==
    IF StringEnds(t) = {} THEN Len(t.source) ELSE FirstOf(StringEnds(t)) - 1

\* C18: a scan_token that starts at the opening quote of an unterminated
\* string records exactly one "Unterminated string." error with the line of
\* the quote, adds no token, and leaves the cursor at the newline with the
\* line counter unchanged, the scan going on from there; and every token and
\* error, before or after, carries the line its lexeme starts on.
C18_UnterminatedStringIsOneError ==
    [][/\ Unterminated(tokenizer) =>
            /\ tokenizer'.status = "scanning"
            /\ tokenizer'.errors =
                    Append(tokenizer.errors,
                           [msg |-> "Unterminated string.", line |-> tokenizer.line,
                            column |-> tokenizer.current_char + 1])
            /\ tokenizer'.tokens = tokenizer.tokens
            /\ tokenizer'.current_char = StopOf(tokenizer)
            /\ tokenizer'.line = tokenizer.line
       /\ OnTheirLines(tokenizer')]_vars

-----------------------------------------------------------------------------
(* Unrecognized characters                                                 *)

\* Neither whitespace, punctuation, an operator, a quote, a digit nor a letter.
Recognized(c) ==
    \/ c \in Blanks \cup {"\n"} \cup Singles \cup Operators \cup {"/", "\""}
    \/ is_numeric(c)
    \/ is_alphabetic(c)
UnrecognizedAt(source) == {i \in DOMAIN source : ~Recognized(source[i])}
Plain(source) == \A i \in DOMAIN source : source[i] \notin {"/", "\""}

\* C19: in a returned scan of a source with no string and no comment, there is
\* one "Unrecognized character" error for each unrecognized character of the
\* source, and nothing else in the errors.
C19_UnrecognizedCharacterIsOneError ==
    (ScanReturned /\ Plain(tokenizer.source)) =>
        /\ Len(tokenizer.errors) = Cardinality(UnrecognizedAt(tokenizer.source))
        /\ \A i \in DOMAIN tokenizer.errors :
                \E j \in UnrecognizedAt(tokenizer.source) :
                    /\ tokenizer.errors[i].column = j
                    /\ tokenizer.errors[i].msg =
                            "Unrecognized character \"" \o tokenizer.source[j] \o "\"."

-----------------------------------------------------------------------------
(* else if                                                                 *)

NameStmt(name) == ExpressionStmt(VariableResolutionExpression(Ident(name)))
BlockOf(name) == BlockStmt(<<NameStmt(name)>>)

\* C20: `if true { a; } else if true { b; } else { c; }` parses without a
\* parse error into one If statement whose else_if_branches holds the branch
\* (true, { b; }) and whose else_branch is { c; }.
C20_ElseIfParses ==
    (tokenizer.source = ElseIfSource /\ program # NoProgram) =>
        /\ program.tag = "Ok"
        /\ parser.errors = <<>>
        /\ Len(program.statements) = 1
        /\ program.statements[1].kind = "If"
        /\ Len(program.statements[1].else_if_branches) = 1
        /\ program.statements[1].else_if_branches[1].condition = Lit(Boolean(TRUE))
        /\ program.statements[1].else_if_branches[1].then_branch = BlockOf("b")
        /\ program.statements[1].else_branch = BlockOf("c")

-----------------------------------------------------------------------------
(* Errors of operands                                                      *)

\* C28: a binary expression with an operand that fails returns that operand's
\* error, the left one's when both fail, whatever the operator and the other
\* operand are.
C28_OperandErrorPropagates ==
    (expr.kind = "Binary" /\ result # NoResult) =>
        /\ LeftResult.tag = "Err" => result = LeftResult
        /\ (LeftResult.tag = "Ok" /\ RightResult.tag = "Err") => result = RightResult

-----------------------------------------------------------------------------
(* Frames                                                                  *)

HoldsOS(e) == Len(e) >= 1 /\ contains_key(e[1], "OS")

\* C29: between the statements of interpret's loop, where no block is being
\* executed, the environment is the global frame alone, holding OS; every
\* execute starts and ends with the global frame in place; and the statement a
\* block ran last was run with one frame more than the block was entered with.
C29_FramesFollowBlocks ==
    /\ Len(env) = 1
    /\ HoldsOS(env)
    /\ \A j \in DOMAIN log :
            /\ HoldsOS(log[j].before)
            /\ HoldsOS(log[j].after)
            /\ (log[j].stmt.kind = "Block" /\ log[j].stmt.statements # <<>>) =>
                    Len(log[j - 1].before) = Len(log[j].before) + 1

\* C30: a VarDecl or Assignment statement that returns an error leaves the
\* environment, every frame of it, as it found it.
C30_FailedBindingLeavesEnv ==
    \A entry \in EntriesOf("VarDecl") \cup EntriesOf("Assignment") :
        entry.tag = "Err" => entry.after = entry.before

\* Inside a block a declaration or an assignment has failed, and the frames
\* after it are the frames before it.
C30_Witness ==
    \E entry \in EntriesOf("VarDecl") \cup EntriesOf("Assignment") :
        /\ entry.tag = "Err"
        /\ Len(entry.before) > 1
        /\ entry.after = entry.before

-----------------------------------------------------------------------------
(* Properties of parse                                                     *)

Parsed3(first, second) == parser.tokens = ChainTokens(first, second)
NameA == VariableResolutionExpression(Ident("a"))
NameB == VariableResolutionExpression(Ident("b"))
NameC == VariableResolutionExpression(Ident("c"))

\* The parse has returned one expression statement of e, with no error and
\* every token up to Eof consumed.
ParsedAs(e) ==
    /\ program.tag = "Ok"
    /\ parser.errors = <<>>
    /\ is_at_end(parser)
    /\ program.statements = <<ExpressionStmt(e)>>

\* C21: `a or b or c;` and `a and b and c;` parse without error into the
\* left-nested Logical tree ((a op b) op c), every token consumed.
C21_LogicalChainsNestLeft ==
    \A operator \in LogicalOperators :
        (Parsed3(operator, operator) /\ program # NoProgram) =>
            ParsedAs(LogicalExpression(LogicalExpression(NameA, Op(operator), NameB),
                                       Op(operator), NameC))

\* The rule that takes the operator: the higher, the tighter it binds.
Level(operator) ==
    CASE operator \in {"Slash", "Star"} -> 4
      [] operator \in {"Minus", "Plus"} -> 3
      [] operator \in {"Greater", "GreaterEqual", "Less", "LessEqual"} -> 2
      [] operator \in {"BangEqual", "EqualEqual"} -> 1

\* The tree of `a first b second c` by precedence, left-nested on equal levels.
TreeOf(first, second) ==
    IF Level(second) > Level(first)
    THEN BinaryExpression(NameA, Op(first), BinaryExpression(NameB, Op(second), NameC))
    ELSE BinaryExpression(BinaryExpression(NameA, Op(first), NameB), Op(second), NameC)

\* (1 + 2) * -3 / 2, as precedence and left nesting read it.
PrintTree ==
    BinaryExpression(
        BinaryExpression(
            GroupingExpression(BinaryExpression(Lit(Number(1)), Op("Plus"), Lit(Number(2)))),
            Op("Star"),
            UnaryExpression(Op("Minus"), Lit(Number(3)))),
        Op("Slash"),
        Lit(Number(2)))

\* C22: every chain `a op1 b op2 c;` of equality, comparison, term and factor
\* operators parses into the tree precedence dictates, left-nested when the two
\* operators are of one level; and `print (1 + 2) * -3 / 2;` parses into the
\* tree that prints -4.5.
C22_BinaryPrecedenceAndLeftNesting ==
    /\ \A first \in BinaryOperators, second \in BinaryOperators :
            (Parsed3(first, second) /\ program # NoProgram) =>
                ParsedAs(TreeOf(first, second))
    /\ (parser.tokens = PrintTokens /\ program # NoProgram) =>
            /\ parser.errors = <<>>
            /\ program.statements = <<PrintStmt(PrintTree)>>
            /\ executed = 1 => stdout = Printed(<<"-4.5">>)

\* `print (1 + 2) * -3 / 2;` has been parsed and run, and has printed -4.5.
C22_Witness ==
    /\ parser.tokens = PrintTokens
    /\ executed = 1
    /\ program.statements = <<PrintStmt(PrintTree)>>
    /\ stdout = Printed(<<"-4.5">>)

\* C23: for every token list ending with Eof, parse returns, at Eof, with the
\* errors it met in its list: it neither loops forever nor panics.
C23_ParseTerminates ==
    program # NoProgram =>
        /\ program.tag = "Ok"
        /\ is_at_end(parser)

-----------------------------------------------------------------------------
(* Lexemes and positions                                                   *)

Whitespace == {" ", "\t", "\r", "\n"}
WordTerminators == Whitespace \cup {"(", ")", "{", "}", ",", ".", ";"}

\* Where the word starting at the from-th character ends: before the first
\* terminator after it, or at the end of the source.
WordEnds(source, from) == {j \in from..Len(source) : source[j] \in WordTerminators}
WordOf(source, from) ==
    SubSeq(source, from,
           IF WordEnds(source, from) = {} THEN Len(source)
           ELSE FirstOf(WordEnds(source, from)) - 1)

OneByte(source) == len(source) = Len(source)

\* C26: in a source of one-byte characters, the token scanned from a letter
\* has for lexeme the characters from that letter up to the first whitespace
\* character (space, tab, carriage return, newline), `(`, `)`, `{`, `}`, `,`,
\* `.`, `;` or the end, and for kind what the keyword table gives that spelling.
C26_WordStopsAtWhitespace ==
    OneByte(tokenizer.source) =>
        \A i \in DOMAIN tokenizer.tokens :
            LET token == tokenizer.tokens[i]
            IN  (token.kind # "Eof" /\ is_alphabetic(tokenizer.source[token.column])) =>
                    /\ token.lexeme = Concat(WordOf(tokenizer.source, token.column))
                    /\ token.kind = match_keyword(token.lexeme)

\* The newlines before the from-th character, and the last of them (or 0).
NewlinesUpTo(source, n) == {i \in 1..n : source[i] = "\n"}
LineStart(source, n) ==
    IF NewlinesUpTo(source, n) = {} THEN 0
    ELSE CHOOSE i \in NewlinesUpTo(source, n) : \A k \in NewlinesUpTo(source, n) : k <= i

\* C27: a scan_token that pushes a token gives it the line of its first
\* character, 1 plus the newlines before it, and for column the 1-based offset
\* of that character in its line.
C27_TokenPositionInLine ==
    [][(tokenizer.status = "scanning" /\ tokenizer'.status = "scanning"
            /\ Len(tokenizer'.tokens) = Len(tokenizer.tokens) + 1) =>
        LET token == tokenizer'.tokens[Len(tokenizer'.tokens)]
            start == tokenizer.current_char
        IN  /\ token.line = 1 + Cardinality(NewlinesUpTo(tokenizer.source, start))
            /\ token.column = start + 1 - LineStart(tokenizer.source, start)]_vars

-----------------------------------------------------------------------------
(* Properties of the driver                                                *)

\* C24: a file run whose tokenizer and interpreter did not abort ends with
\* status 70 after tokenizer errors, 1 after parse errors, 1 after a runtime
\* error, and 0 only when there was no error at all.
C24_FileExitStatusReflectsOutcome ==
    (/\ driver.mode = "File"
     /\ driver.phase = "exited"
     /\ tokenizer.status = "returned"
     /\ status # "panicked") =>
        driver.exit = (CASE tokenizer.errors # <<>> -> 70
                         [] parser.errors # <<>> -> 1
                         [] status = "stopped" -> 1
                         [] OTHER -> 0)

\* run is about to finish with the line: its tokenizer errors are known, or
\* it has been parsed.
LineDone ==
    \/ driver.phase = "tokenized" /\ tokenizer.errors # <<>>
    \/ driver.phase = "parsed"

\* C25: in REPL mode, whatever error the line caused (tokenizer, parse or
\* runtime), the step that finishes the line takes the loop back to the prompt.
C25_PromptSurvivesErrors ==
    [][(driver.mode = "Prompt" /\ LineDone /\ status' # "panicked") =>
            driver'.phase = "prompt"]_vars

====
